---- MODULE Spec2Model ----
(***************************************************************************)
(* amz::deferred_reclamation_allocator: an allocator adaptor that defers   *)
(* destruction and deallocation of objects until a timeout has elapsed.    *)
(* The model follows include/amz/deferred_reclamation_allocator.hpp: one   *)
(* calling thread drives the allocators, a steady clock ticks on its own,  *)
(* and std::this_thread::sleep_until is a suspension point of the caller.  *)
(***************************************************************************)
EXTENDS Integers, Sequences, FiniteSets, TLC

\* ------------------------------------------------------------------ bounds
MaxObjects  == 3   \* pointers the underlying allocator hands out
MaxBuffers  == 3   \* carrier buffers the byte allocator can hold live
MaxTime     == 4   \* the clock is free to tick up to this value
MaxOperands == 3   \* allocator objects a comparison can choose from
MaxThreads  == 3   \* threads that use one bounded_channel
MaxPushes   == 3   \* pushing calls made on one bounded_channel
MaxLen      == 3   \* elements in a range given to remove_and_copy_if

Timeouts    == {1, 2}   \* timeouts tried, in clock units
Capacities  == {1, 2}   \* delay_buffer_size values tried

NULL == 0

\* max_live_allocations_ of an underlying allocator that has no cap.
Unbounded == 0
\* Caps of utils::bounded_allocator tried.
Caps == {2, 3, 4, 5}

Allocators == {1, 2}
Pointers   == 1..MaxObjects
BufferIds  == 1..MaxBuffers

\* sizeof(DelayBuffer) (the list hook and the time point) and
\* sizeof(DelayBufferElement) (a pointer and a std::size_t) with 64-bit
\* pointers.
sizeof_DelayBuffer        == 16
sizeof_DelayBufferElement == 16

\* buffer_new(): `sizeof(DelayBuffer) + buffer_capacity_ * sizeof(DelayBufferElement)`
buffer_bytes(capacity) ==
  sizeof_DelayBuffer + capacity * sizeof_DelayBufferElement

\* struct DelayBufferElement { pointer p; std::size_t n; }
DelayBufferElement(p, n) == [p |-> p, n |-> n]
NoElement == [p |-> NULL, n |-> 0]

\* struct DelayBuffer { TimePoint timestamp; DelayBufferElement elements[]; }
\* as left by `new (bytes) DelayBuffer{}`; `live` is the byte allocator's view.
\* `allocated` is the count given to buffer_allocator_.allocate for the bytes
\* and `returned` the count given to buffer_allocator_.deallocate (0 while
\* the bytes have not been handed back).
DelayBuffer(capacity) == [live |-> TRUE, timestamp |-> 0,
                          elements |-> [i \in 1..capacity |-> NoElement],
                          allocated |-> buffer_bytes(capacity), returned |-> 0]
FreeBytes == [live |-> FALSE, timestamp |-> 0, elements |-> <<>>,
              allocated |-> 0, returned |-> 0]

\* What is known about the storage behind one pointer of the underlying
\* allocator: st is "free" (never allocated), "live" (allocated and
\* constructed), "pending" (passed to deallocate) or "reclaimed".
\* n is the count given to allocate, dtime the clock at the deallocate call,
\* pipe the allocator whose pipeline holds (or held) the entry, ndestroy the
\* number of destructor calls on the objects, nfree the number of calls of
\* the underlying deallocate and dcalls the number of destroy(p) calls made
\* on the adaptor.
FreshObject == [st |-> "free", n |-> 0, dtime |-> 0, pipe |-> 0,
                ndestroy |-> 0, nfree |-> 0, dcalls |-> 0]

VARIABLES
  clock,                 \* TimeoutClock::now()
  timeout_,              \* Duration const timeout_
  buffer_capacity_,      \* std::size_t const buffer_capacity_
  life,                  \* per allocator: "unborn", "alive", "destroyed"
  now_,                  \* TimePoint now_
  current_buffer_,       \* alloc_pointer_t<DelayBuffer>, NULL iff moved-from
  current_buffer_size_,  \* std::size_t current_buffer_size_
  delay_list_,           \* DelayList (head first)
  heap,                  \* storage handed out by buffer_allocator_
  obj,                   \* storage handed out by allocator_
  deallocLog,            \* pointers in the order deallocate() received them
  reclaimLog,            \* pointers in the order they were reclaimed
  pc,                    \* where the calling thread is
  self,                  \* the allocator the calling thread is inside of
  sleep_deadline,        \* argument of the pending sleep_until
  dtor_now,              \* local `now` of the destructor
  readerRef,             \* pointer a concurrent reader holds, or NULL
  max_live_allocations_, \* cap of the underlying bounded_allocator, or Unbounded
  thrown,                \* exception the last call let escape, or "none"
  operands,              \* allocator objects handed to operator== / operator!=
  verdict,               \* what the last comparison returned
  capacity_,             \* bounded_channel: std::size_t const capacity_
  queue_,                \* bounded_channel: std::queue<T, Container> queue_
  closed_,               \* bounded_channel: bool closed_
  mutex_,                \* bounded_channel: thread that owns mutex_, or NULL
  consumers_,            \* threads blocked in a wait on consumers_
  producers_,            \* threads blocked in a wait on producers_
  thread,                \* per thread: the channel operation it is in
  nextValue,             \* the value the next pushing call will carry
  pushed,                \* values enqueued, in the order of the enqueues
  popped,                \* values dequeued, in the order of the dequeues
  drained,               \* how many of them were dequeued with closed_ set
  iterators,             \* per thread: its bounded_channel::iterator
  flag_,                 \* small_spin_mutex: std::atomic_flag flag_
  locker,                \* per thread: what it does with the small_spin_mutex
  algorithm              \* the call of remove_and_copy_if under way

vars == <<clock, timeout_, buffer_capacity_, life, now_, current_buffer_,
          current_buffer_size_, delay_list_, heap, obj, deallocLog,
          reclaimLog, pc, self, sleep_deadline, dtor_now, readerRef,
          max_live_allocations_, thrown, operands, verdict, capacity_,
          queue_, closed_, mutex_, consumers_, producers_, thread, nextValue,
          pushed, popped, drained, iterators, flag_, locker, algorithm>>

config == <<timeout_, buffer_capacity_, max_live_allocations_>>
fields == <<now_, current_buffer_, current_buffer_size_, delay_list_>>
caller == <<pc, self, sleep_deadline, dtor_now>>
\* State that no member function of a running allocator touches.
compare == <<operands, verdict>>
channel == <<capacity_, queue_, closed_, mutex_, consumers_, producers_,
             thread, nextValue, pushed, popped, drained, iterators>>
\* State that no member function of an allocator or of a channel touches.
apart == <<flag_, locker, algorithm>>
aside  == <<compare, channel, apart>>
\* State that no member function of a bounded_channel touches.
pipeline == <<clock, timeout_, buffer_capacity_, max_live_allocations_, life,
              now_, current_buffer_, current_buffer_size_, delay_list_, heap,
              obj, deallocLog, reclaimLog, pc, self, sleep_deadline, dtor_now,
              readerRef, thrown, apart>>

\* ------------------------------------------------------- pure helpers

\* The byte allocator hands out the lowest free carrier.
FreeBuffers(hp) == {b \in BufferIds : ~hp[b].live}
LowestFree(hp) == CHOOSE b \in FreeBuffers(hp) : \A c \in FreeBuffers(hp) : b <= c

\* live_allocations_ of utils::bounded_allocator: the counter is shared by
\* allocator_ and buffer_allocator_, so it counts objects and carriers.
live_allocations_(hp, o) ==
  Cardinality({p \in Pointers : o[p].st \in {"live", "pending"}})
    + Cardinality({b \in BufferIds : hp[b].live})

\* bounded_allocator::allocate: `if (live_allocations_ + 1 > max_live_allocations_)`
bounded_allocate_throws(hp, o) ==
  live_allocations_(hp, o) + 1 > max_live_allocations_

\* What allocate of the underlying allocator can do: an allocator without a
\* cap can return storage or throw std::bad_alloc at any call.
allocate_can_succeed(hp, o) ==
  max_live_allocations_ = Unbounded \/ ~bounded_allocate_throws(hp, o)
allocate_can_throw(hp, o) ==
  max_live_allocations_ = Unbounded \/ bounded_allocate_throws(hp, o)

\* buffer_new(): bytes from buffer_allocator_, a DelayBuffer{} built in them.
buffer_new(hp, capacity) == [hp EXCEPT ![LowestFree(hp)] = DelayBuffer(capacity)]

\* buffer_delete(): the header is destroyed, the bytes go back:
\* `buffer_allocator_.deallocate(bytes, buffer_capacity_)`.
buffer_delete(hp, buffer) ==
  [hp EXCEPT ![buffer] = [FreeBytes EXCEPT !.allocated = hp[buffer].allocated,
                                           !.returned = buffer_capacity_]]

\* detail::destroy_n(elem->p, elem->n); allocator_.deallocate(elem->p, elem->n)
\* for one element.
reclaim_one(o, elem) ==
  IF elem.p = NULL THEN o
  ELSE [o EXCEPT ![elem.p] = [@ EXCEPT !.st = "reclaimed",
                                       !.ndestroy = @ + elem.n,
                                       !.nfree = @ + 1]]

\* Mutant: the range is walked from its last element to its first.
RECURSIVE reclaim_buffer_elements_backwards(_, _, _, _)
reclaim_buffer_elements_backwards(w, elements, first, last) ==
  IF first > last THEN w
  ELSE reclaim_buffer_elements_backwards(
         [obj |-> reclaim_one(w.obj, elements[last]),
          log |-> IF elements[last].p = NULL THEN w.log
                  ELSE Append(w.log, elements[last].p)],
         elements, first, last - 1)

\* reclaim_buffer_elements(elem, last): elements first..last of the array, in
\* array order.  w = [obj, log].
RECURSIVE reclaim_buffer_elements(_, _, _, _)
reclaim_buffer_elements(w, elements, first, last) ==
  IF first > last THEN w
  ELSE reclaim_buffer_elements(
         [obj |-> reclaim_one(w.obj, elements[first]),
          log |-> IF elements[first].p = NULL THEN w.log
                  ELSE Append(w.log, elements[first].p)],
         elements, first + 1, last)

\* Mutant: the timeout is left out of the deadline.
purge_ready_without_timeout(now, timestamp, timeout) == now > timestamp

\* purge(): `if (now_ > ready_to_delete)`
purge_ready(now, timestamp, timeout) == now > timestamp + timeout

\* Mutant: the comparison is the wrong way round.
reuse_too_early_inverted(now, timestamp, timeout) == now > timestamp + timeout

\* purge_delay_list_and_reuse_existing_buffer(): `if (now_ <= oldest.timestamp + timeout_)`
reuse_too_early(now, timestamp, timeout) == now <= timestamp + timeout

\* Mutant: sleep_until comes back one tick before the deadline.
sleep_until_returns_early(t, deadline) == t + 1 >= deadline

\* std::this_thread::sleep_until(deadline) may return once the clock reads t.
sleep_until_returns(t, deadline) == t >= deadline

\* Mutant: the buffer kept for reuse is the youngest one the sweep reclaimed;
\* the older ones go back to the byte allocator.
RECURSIVE purge_delay_list_and_reuse_youngest(_, _, _, _)
purge_delay_list_and_reuse_youngest(s, now, timeout, capacity) ==
  IF s.dl = <<>> THEN s
  ELSE LET oldest == Head(s.dl) IN
    IF reuse_too_early(now, s.hp[oldest].timestamp, timeout) THEN s
    ELSE purge_delay_list_and_reuse_youngest(
           [dl |-> Tail(s.dl),
            hp |-> IF s.reuse = NULL THEN s.hp ELSE buffer_delete(s.hp, s.reuse),
            w |-> reclaim_buffer_elements(s.w, s.hp[oldest].elements,
                                          1, capacity),
            reuse |-> oldest],
           now, timeout, capacity)

\* purge_delay_list_and_reuse_existing_buffer(): the loop, from the state
\* s = [dl, hp, w, reuse]; s.reuse is what the function returns.
RECURSIVE purge_delay_list_and_reuse_existing_buffer(_, _, _, _)
purge_delay_list_and_reuse_existing_buffer(s, now, timeout, capacity) ==
  IF s.dl = <<>> THEN s
  ELSE LET oldest == Head(s.dl) IN
    IF reuse_too_early(now, s.hp[oldest].timestamp, timeout) THEN s
    ELSE LET w2 == reclaim_buffer_elements(s.w, s.hp[oldest].elements,
                                           1, capacity)
         IN purge_delay_list_and_reuse_existing_buffer(
              IF s.reuse = NULL
                THEN [dl |-> Tail(s.dl), hp |-> s.hp, w |-> w2, reuse |-> oldest]
                ELSE [dl |-> Tail(s.dl), hp |-> buffer_delete(s.hp, oldest),
                      w |-> w2, reuse |-> s.reuse],
              now, timeout, capacity)

\* Mutant: the head is unlinked and its bytes are freed, but its elements are
\* not reclaimed.
pop_front_and_dispose_without_reclaim(s, capacity) ==
  [dl |-> Tail(s.dl), hp |-> buffer_delete(s.hp, Head(s.dl)), w |-> s.w]

\* Mutant: the head is unlinked and neither its elements nor its bytes go
\* back to the underlying allocator.
pop_front_and_dispose_leaking(s, capacity) ==
  [dl |-> Tail(s.dl), hp |-> s.hp, w |-> s.w]

\* reclaim_full_buffer of purge(), as given to pop_front_and_dispose:
\* s = [dl, hp, w] with a non-empty dl.
pop_front_and_dispose(s, capacity) ==
  LET buffer == Head(s.dl) IN
  [dl |-> Tail(s.dl),
   hp |-> buffer_delete(s.hp, buffer),
   w  |-> reclaim_buffer_elements(s.w, s.hp[buffer].elements, 1, capacity)]

\* Mutant: once the delay list is empty, purge also reclaims the elements of
\* the buffers that are not on it (the current buffer).
RECURSIVE reclaim_live_buffers(_, _, _, _)
reclaim_live_buffers(w, hp, b, capacity) ==
  IF b > MaxBuffers THEN w
  ELSE reclaim_live_buffers(
         IF hp[b].live
           THEN reclaim_buffer_elements(w, hp[b].elements, 1, capacity)
           ELSE w,
         hp, b + 1, capacity)

RECURSIVE purge_loop_flushing_current(_, _, _, _)
purge_loop_flushing_current(s, now, timeout, capacity) ==
  IF s.dl = <<>>
    THEN [s EXCEPT !.w = reclaim_live_buffers(s.w, s.hp, 1, capacity)]
  ELSE IF purge_ready(now, s.hp[Head(s.dl)].timestamp, timeout)
    THEN purge_loop_flushing_current(
           [dl |-> Tail(s.dl), hp |-> buffer_delete(s.hp, Head(s.dl)),
            w |-> reclaim_buffer_elements(s.w, s.hp[Head(s.dl)].elements,
                                          1, capacity)],
           now, timeout, capacity)
    ELSE s

\* Mutant: an `if` in place of the `while`: at most one buffer is disposed of.
purge_loop_single_pass(s, now, timeout, capacity) ==
  IF s.dl # <<>> /\ purge_ready(now, s.hp[Head(s.dl)].timestamp, timeout)
    THEN pop_front_and_dispose(s, capacity)
    ELSE s

\* The while loop of purge() up to its first return or sleep: buffers whose
\* deadline has passed are disposed of; the loop stops at the first one that
\* is too young (or on the empty list).
RECURSIVE purge_loop(_, _, _, _)
purge_loop(s, now, timeout, capacity) ==
  IF s.dl = <<>> THEN s
  ELSE IF purge_ready(now, s.hp[Head(s.dl)].timestamp, timeout)
    THEN purge_loop(pop_front_and_dispose(s, capacity), now, timeout, capacity)
    ELSE s

\* ---------------------------------------------------------- bounded_channel

Threads == 1..MaxThreads
ChannelCapacities == {1, 2}

\* enum class channel_op_status, and "none" while no call has returned.
channel_op_status == {"success", "empty", "full", "closed", "timeout"}

PushOps == {"push", "try_push", "try_push_until"}
PopOps == {"pop", "try_pop", "try_pop_until"}
TimedOps == {"try_push_until", "try_pop_until"}

\* A thread that is in no call: op is the member function it is in, pc the
\* place in it, va the value it pushes, out the variable its pops assign to,
\* expired whether timeout_time has been reached, status what its last call
\* returned.
IdleThread == [pc |-> "idle", op |-> "none", va |-> 0, out |-> 0,
               expired |-> FALSE, status |-> "none"]

\* The address of the channel, as held in iterator::channel_.
ChannelAddress == 1

\* boost::none, and the values of type T that the threads push.
None == 0
Values == {1, 2}

\* A thread that has made no iterator yet.  channel_ and value_ are the
\* members of the iterator, incrementing says that its operator++ is under
\* way, seen lists the values it has held.
NoIterator == [born |-> FALSE, channel_ |-> NULL, value_ |-> None,
               incrementing |-> FALSE, seen |-> <<>>]

\* iterator(): the past-the-end iterator that end() returns.
end == [channel_ |-> NULL, value_ |-> None]

\* bounded_channel(capacity), with no thread in a call.
bounded_channel(capacity) ==
  /\ capacity_ = capacity
  /\ queue_ = <<>>
  /\ closed_ = FALSE
  /\ mutex_ = NULL
  /\ consumers_ = {}
  /\ producers_ = {}
  /\ thread = [t \in Threads |-> IdleThread]
  /\ nextValue = 1
  /\ pushed = <<>>
  /\ popped = <<>>
  /\ drained = 0
  /\ iterators = [t \in Threads |-> NoIterator]

\* A channel that no thread uses.
ChannelUnused == \E c \in ChannelCapacities :
  (\A d \in ChannelCapacities : c <= d) /\ bounded_channel(c)

\* Mutant: a queue that holds capacity_ elements is not full yet.
is_full_above_capacity(queue, capacity) == Len(queue) > capacity

\* bool is_full() const
is_full(queue, capacity) == Len(queue) >= capacity

\* bool is_empty() const
is_empty(queue) == queue = <<>>

\* -------------------------------------------------------- small_spin_mutex

\* A thread that has called no member function of the mutex: pc says where
\* the thread is (out of the mutex, spinning in lock(), or owning it), last
\* is the member function it called last, ret what try_lock() returned.
NoLocker == [pc |-> "out", last |-> "none", ret |-> FALSE]

\* small_spin_mutex() = default, with flag_ = ATOMIC_FLAG_INIT.
small_spin_mutex ==
  /\ flag_ = FALSE
  /\ locker = [t \in Threads |-> NoLocker]

\* A mutex that no thread uses.
MutexUnused == small_spin_mutex

\* ------------------------------------------------------ remove_and_copy_if

\* The values of the elements, and the ranges the algorithm is called with.
Elements == {1, 2}
Ranges == UNION {[1..n -> Elements] : n \in 0..MaxLen}

\* remove_and_copy_if(first, last, result, pred) at its entry: range holds
\* the elements of [first, last), first, last and compress are positions in
\* it, result holds what has been written to the output range, pred is the
\* set of values that satisfy the predicate; applications and copies count
\* the calls of pred and the assignments of elements.
remove_and_copy_if(range, pred) ==
  [pc |-> "find_if", range |-> range, pred |-> pred,
   first |-> 1, last |-> Len(range) + 1, compress |-> 1, result |-> <<>>,
   applications |-> 0, copies |-> 0]

\* No call of remove_and_copy_if.
NotCalled == [pc |-> "none"]

AlgorithmUnused == algorithm = NotCalled

\* ------------------------------------------------------------ initial state

NoVerdict == [a |-> 0, b |-> 0, eq |-> FALSE, ne |-> FALSE]

\* deferred_reclamation_allocator(allocator, timeout, delay_buffer_size) has
\* just built allocator 1; allocator 2 does not exist yet.
Constructed ==
  /\ clock = 0
  /\ life = [a \in Allocators |-> IF a = 1 THEN "alive" ELSE "unborn"]
  /\ now_ = [a \in Allocators |-> 0]
  /\ current_buffer_ = [a \in Allocators |-> IF a = 1 THEN 1 ELSE NULL]
  /\ current_buffer_size_ = [a \in Allocators |-> 0]
  /\ delay_list_ = [a \in Allocators |-> <<>>]
  /\ heap = [b \in BufferIds |->
               IF b = 1 THEN DelayBuffer(buffer_capacity_) ELSE FreeBytes]
  /\ obj = [p \in Pointers |-> FreshObject]
  /\ deallocLog = <<>>
  /\ reclaimLog = <<>>
  /\ pc = "idle"
  /\ self = 0
  /\ sleep_deadline = 0
  /\ dtor_now = 0
  /\ readerRef = NULL

Init ==
  /\ timeout_ \in Timeouts
  /\ buffer_capacity_ \in Capacities
  /\ max_live_allocations_ = Unbounded
  /\ Constructed
  /\ thrown = "none"
  /\ operands = <<>>
  /\ verdict = NoVerdict
  /\ ChannelUnused
  /\ MutexUnused
  /\ AlgorithmUnused

\* ------------------------------------------------------------------ helpers

was_moved_from(a) == current_buffer_[a] = NULL
current_buffer_full(a) == current_buffer_size_[a] = buffer_capacity_
current_buffer_empty(a) == current_buffer_size_[a] = 0

\* The calling thread may start an operation on allocator a.
\* (every member function but the destructor asserts !was_moved_from())
Callable(a) == pc = "idle" /\ life[a] = "alive" /\ ~was_moved_from(a)

\* A reader that still holds a reference to a deallocated object releases it
\* within timeout_ of the deallocate call: the clock cannot pass that instant
\* while the reference is held.
ReaderAllows(t) ==
  readerRef # NULL /\ obj[readerRef].st = "pending"
    => t <= obj[readerRef].dtime + timeout_

\* ------------------------------------------------------------------ actions

\* The steady clock advances.  Past MaxTime it only advances for a sleeper.
Tick ==
  /\ \/ clock < MaxTime
     \/ pc \notin {"idle", "aborted"} /\ clock < sleep_deadline
  /\ ReaderAllows(clock + 1)
  /\ clock' = clock + 1
  /\ UNCHANGED <<config, aside, life, fields, heap, obj, deallocLog, reclaimLog,
                 caller, readerRef>>
  /\ UNCHANGED thrown

\* The caller's k-th allocation asks for AllocCount(k) objects.
AllocCount(p) == 1 + (p % 2)

\* The pointers allocator_.allocate can return: the underlying allocator
\* hands out its lowest unused storage.
underlying_allocate(o) ==
  {p \in Pointers :
     o[p].st = "free" /\ \A q \in Pointers : o[q].st = "free" => p <= q}

\* Mutant: before the exception of the underlying allocator leaves, the
\* delay list is purged of what is ready.
AllocatePurgesOnFailure(a) ==
  /\ Callable(a)
  /\ allocate_can_throw(heap, obj)
  /\ thrown' = "bad_alloc"
  /\ LET s == purge_loop([dl |-> delay_list_[a], hp |-> heap,
                          w |-> [obj |-> obj, log |-> reclaimLog]],
                         clock, timeout_, buffer_capacity_)
     IN /\ heap' = s.hp
        /\ obj' = s.w.obj
        /\ reclaimLog' = s.w.log
        /\ delay_list_' = [delay_list_ EXCEPT ![a] = s.dl]
  /\ UNCHANGED <<clock, config, aside, life, now_, current_buffer_,
                 current_buffer_size_, deallocLog, caller, readerRef>>

\* allocate(n) whose allocator_.allocate(n) throws std::bad_alloc: there is
\* no handler, the exception leaves allocate().
AllocateThrows(a) ==
  /\ Callable(a)
  /\ allocate_can_throw(heap, obj)
  /\ thrown' = "bad_alloc"
  /\ UNCHANGED <<clock, config, aside, life, fields, heap, obj, deallocLog,
                 reclaimLog, caller, readerRef>>

\* allocate(n) then construct(p, ...): both pass through to allocator_.
Allocate(a) ==
  /\ Callable(a)
  /\ allocate_can_succeed(heap, obj)
  /\ \E p \in underlying_allocate(obj) :
       obj' = [obj EXCEPT ![p] = [@ EXCEPT !.st = "live", !.n = AllocCount(p)]]
  /\ UNCHANGED <<clock, config, aside, life, fields, heap, deallocLog, reclaimLog,
                 caller, readerRef>>
  /\ thrown' = "none"

\* Mutant: destroy(p) forwards to the underlying allocator, which runs the
\* destructors.
destroy_forwarding(a, p) ==
  /\ Callable(a)
  /\ obj[p].st = "live"
  /\ obj[p].dcalls = 0
  /\ obj' = [obj EXCEPT ![p] = [@ EXCEPT !.dcalls = 1, !.ndestroy = @ + obj[p].n]]
  /\ UNCHANGED <<clock, config, aside, life, fields, heap, deallocLog,
                 reclaimLog, caller, readerRef>>
  /\ thrown' = "none"

\* destroy(p) on an object that has not been passed to deallocate(): the
\* body is empty, only the call is counted.
destroy(a, p) ==
  /\ Callable(a)
  /\ obj[p].st = "live"
  /\ obj[p].dcalls = 0
  /\ obj' = [obj EXCEPT ![p] = [@ EXCEPT !.dcalls = 1]]
  /\ UNCHANGED <<clock, config, aside, life, fields, heap, deallocLog,
                 reclaimLog, caller, readerRef>>
  /\ thrown' = "none"

\* Mutant: every element is written to the first slot of the buffer.
current_buffer_push_back_first_slot(hp, buffer, size, elem) ==
  [hp EXCEPT ![buffer].elements[1] = elem]

\* current_buffer_push_back(elem): elements[current_buffer_size_] = elem.
current_buffer_push_back(hp, buffer, size, elem) ==
  [hp EXCEPT ![buffer].elements[size + 1] = elem]

\* The caller hands p to deallocate() of allocator a at clock value t.
Handed(o, p, a, t) ==
  [o EXCEPT ![p] = [@ EXCEPT !.st = "pending", !.dtime = t, !.pipe = a]]

\* Mutant: the buffer carries the time at which its first entry was appended.
SealAndPurgeStampedAtFirst(a, p) ==
  LET cur == current_buffer_[a]
      hp1 == current_buffer_push_back(heap, cur, current_buffer_size_[a],
                                      DelayBufferElement(p, obj[p].n))
      first == IF current_buffer_size_[a] = 0 THEN clock
               ELSE obj[hp1[cur].elements[1].p].dtime
      hp2 == [hp1 EXCEPT ![cur].timestamp = first]
  IN purge_delay_list_and_reuse_existing_buffer(
       [dl |-> Append(delay_list_[a], cur), hp |-> hp2,
        w |-> [obj |-> Handed(obj, p, a, clock), log |-> reclaimLog],
        reuse |-> NULL],
       clock, timeout_, buffer_capacity_)

\* Mutant: the full buffer is put at the head of the delay list.
SealAndPurgeAtFront(a, p) ==
  LET cur == current_buffer_[a]
      hp1 == current_buffer_push_back(heap, cur, current_buffer_size_[a],
                                      DelayBufferElement(p, obj[p].n))
      hp2 == [hp1 EXCEPT ![cur].timestamp = clock]
  IN purge_delay_list_and_reuse_existing_buffer(
       [dl |-> <<cur>> \o delay_list_[a], hp |-> hp2,
        w |-> [obj |-> Handed(obj, p, a, clock), log |-> reclaimLog],
        reuse |-> NULL],
       clock, timeout_, buffer_capacity_)

\* deallocate(), the case of a buffer that became full, up to and including
\* step 2: the element is pushed, the buffer is stamped and offloaded to the
\* delay list (now_ = timestamp = clock), and the delay list is purged for a
\* buffer to reuse.
SealAndPurge(a, p) ==
  LET cur == current_buffer_[a]
      hp1 == current_buffer_push_back(heap, cur, current_buffer_size_[a],
                                      DelayBufferElement(p, obj[p].n))
      hp2 == [hp1 EXCEPT ![cur].timestamp = clock]
  IN purge_delay_list_and_reuse_existing_buffer(
       [dl |-> Append(delay_list_[a], cur), hp |-> hp2,
        w |-> [obj |-> Handed(obj, p, a, clock), log |-> reclaimLog],
        reuse |-> NULL],
       clock, timeout_, buffer_capacity_)

\* deallocate(p, n) that leaves the current buffer not full.
DeallocateBuffered(a, p) ==
  /\ Callable(a)
  /\ obj[p].st = "live"
  /\ ~current_buffer_full(a)
  /\ current_buffer_size_[a] + 1 # buffer_capacity_
  /\ heap' = current_buffer_push_back(heap, current_buffer_[a],
                                      current_buffer_size_[a],
                                      DelayBufferElement(p, obj[p].n))
  /\ current_buffer_size_' = [current_buffer_size_ EXCEPT ![a] = @ + 1]
  /\ obj' = Handed(obj, p, a, clock)
  /\ deallocLog' = Append(deallocLog, p)
  /\ UNCHANGED <<clock, config, aside, life, now_, current_buffer_, delay_list_,
                 reclaimLog, caller, readerRef>>
  /\ thrown' = "none"

\* deallocate(p, n) that fills the buffer and gets a buffer back from the
\* purge of the delay list.
DeallocateRecycle(a, p) ==
  /\ Callable(a)
  /\ obj[p].st = "live"
  /\ ~current_buffer_full(a)
  /\ current_buffer_size_[a] + 1 = buffer_capacity_
  /\ LET s == SealAndPurge(a, p) IN
       /\ s.reuse # NULL
       /\ now_' = [now_ EXCEPT ![a] = clock]
       /\ delay_list_' = [delay_list_ EXCEPT ![a] = s.dl]
       /\ current_buffer_' = [current_buffer_ EXCEPT ![a] = s.reuse]
       /\ current_buffer_size_' = [current_buffer_size_ EXCEPT ![a] = 0]
       /\ heap' = s.hp
       /\ obj' = s.w.obj
       /\ reclaimLog' = s.w.log
  /\ deallocLog' = Append(deallocLog, p)
  /\ UNCHANGED <<clock, config, aside, life, caller, readerRef>>
  /\ thrown' = "none"

\* deallocate(p, n) that fills the buffer, finds nothing to reuse and
\* allocates a new buffer.
DeallocateNewBuffer(a, p) ==
  /\ Callable(a)
  /\ obj[p].st = "live"
  /\ ~current_buffer_full(a)
  /\ current_buffer_size_[a] + 1 = buffer_capacity_
  /\ LET s == SealAndPurge(a, p) IN
       /\ s.reuse = NULL
       /\ FreeBuffers(s.hp) # {}
       /\ allocate_can_succeed(s.hp, s.w.obj)
       /\ now_' = [now_ EXCEPT ![a] = clock]
       /\ delay_list_' = [delay_list_ EXCEPT ![a] = s.dl]
       /\ current_buffer_' = [current_buffer_ EXCEPT ![a] = LowestFree(s.hp)]
       /\ current_buffer_size_' = [current_buffer_size_ EXCEPT ![a] = 0]
       /\ heap' = buffer_new(s.hp, buffer_capacity_)
       /\ obj' = s.w.obj
       /\ reclaimLog' = s.w.log
  /\ deallocLog' = Append(deallocLog, p)
  /\ UNCHANGED <<clock, config, aside, life, caller, readerRef>>
  /\ thrown' = "none"

\* Mutant: the thread sleeps until the deadline of the buffer it has just
\* sealed, the youngest of the delay list.
DeallocateBadAllocSleepsOnYoungest(a, p) ==
  /\ Callable(a)
  /\ obj[p].st = "live"
  /\ ~current_buffer_full(a)
  /\ current_buffer_size_[a] + 1 = buffer_capacity_
  /\ LET s == SealAndPurge(a, p) IN
       /\ s.reuse = NULL
       /\ allocate_can_throw(s.hp, s.w.obj)
       /\ now_' = [now_ EXCEPT ![a] = clock]
       /\ delay_list_' = [delay_list_ EXCEPT ![a] = s.dl]
       /\ current_buffer_' = [current_buffer_ EXCEPT ![a] = NULL]
       /\ current_buffer_size_' = [current_buffer_size_ EXCEPT ![a] = @ + 1]
       /\ heap' = s.hp
       /\ obj' = s.w.obj
       /\ reclaimLog' = s.w.log
       /\ sleep_deadline' = s.hp[s.dl[Len(s.dl)]].timestamp + timeout_
  /\ deallocLog' = Append(deallocLog, p)
  /\ pc' = "dealloc_sleep"
  /\ self' = a
  /\ UNCHANGED <<clock, config, aside, life, dtor_now, readerRef>>
  /\ thrown' = "none"

\* deallocate(p, n) that fills the buffer, finds nothing to reuse, and whose
\* buffer_new() throws std::bad_alloc: the thread goes to sleep until the
\* deadline of the oldest buffer on the delay list.
DeallocateBadAlloc(a, p) ==
  /\ Callable(a)
  /\ obj[p].st = "live"
  /\ ~current_buffer_full(a)
  /\ current_buffer_size_[a] + 1 = buffer_capacity_
  /\ LET s == SealAndPurge(a, p) IN
       /\ s.reuse = NULL
       /\ allocate_can_throw(s.hp, s.w.obj)
       /\ now_' = [now_ EXCEPT ![a] = clock]
       /\ delay_list_' = [delay_list_ EXCEPT ![a] = s.dl]
       /\ current_buffer_' = [current_buffer_ EXCEPT ![a] = NULL]
       /\ current_buffer_size_' = [current_buffer_size_ EXCEPT ![a] = @ + 1]
       /\ heap' = s.hp
       /\ obj' = s.w.obj
       /\ reclaimLog' = s.w.log
       /\ sleep_deadline' = s.hp[Head(s.dl)].timestamp + timeout_
  /\ deallocLog' = Append(deallocLog, p)
  /\ pc' = "dealloc_sleep"
  /\ self' = a
  /\ UNCHANGED <<clock, config, aside, life, dtor_now, readerRef>>
  /\ thrown' = "none"

\* The catch block of deallocate() after sleep_until has returned:
\* now_ = TimeoutClock::now(), the delay list is purged again for a buffer to
\* reuse, and current_buffer_size_ = 0.
DeallocateRecover(a) ==
  /\ pc = "dealloc_sleep"
  /\ self = a
  /\ sleep_until_returns(clock, sleep_deadline)
  /\ LET s == purge_delay_list_and_reuse_existing_buffer(
                 [dl |-> delay_list_[a], hp |-> heap,
                  w |-> [obj |-> obj, log |-> reclaimLog], reuse |-> NULL],
                 clock, timeout_, buffer_capacity_)
     IN
       /\ now_' = [now_ EXCEPT ![a] = clock]
       /\ delay_list_' = [delay_list_ EXCEPT ![a] = s.dl]
       /\ current_buffer_' = [current_buffer_ EXCEPT ![a] = s.reuse]
       /\ current_buffer_size_' = [current_buffer_size_ EXCEPT ![a] = 0]
       /\ heap' = s.hp
       /\ obj' = s.w.obj
       /\ reclaimLog' = s.w.log
  /\ pc' = "idle"
  /\ self' = 0
  /\ sleep_deadline' = 0
  /\ UNCHANGED <<clock, config, aside, life, deallocLog, dtor_now, readerRef>>
  /\ UNCHANGED thrown

\* The caller is back from an operation on allocator a, which leaves the
\* allocator's fields as given.
Return(a, dl, now) ==
  /\ delay_list_' = [delay_list_ EXCEPT ![a] = dl]
  /\ now_' = [now_ EXCEPT ![a] = now]
  /\ pc' = "idle"
  /\ self' = 0
  /\ sleep_deadline' = 0
  /\ dtor_now' = 0

\* The caller goes to sleep inside an operation on allocator a.
Sleep(a, dl, now, where, deadline, dnow) ==
  /\ delay_list_' = [delay_list_ EXCEPT ![a] = dl]
  /\ now_' = [now_ EXCEPT ![a] = now]
  /\ pc' = where
  /\ self' = a
  /\ sleep_deadline' = deadline
  /\ dtor_now' = dnow

\* The same catch block in a build with assertions, when the purge handed
\* back no buffer: `assert(current_buffer_ != nullptr)` ends the program.
DeallocateRecoverAssert(a) ==
  /\ pc = "dealloc_sleep"
  /\ self = a
  /\ sleep_until_returns(clock, sleep_deadline)
  /\ purge_delay_list_and_reuse_existing_buffer(
         [dl |-> delay_list_[a], hp |-> heap,
          w |-> [obj |-> obj, log |-> reclaimLog], reuse |-> NULL],
         clock, timeout_, buffer_capacity_).reuse = NULL
  /\ now_' = [now_ EXCEPT ![a] = clock]
  /\ pc' = "aborted"
  /\ UNCHANGED <<clock, config, aside, life, current_buffer_, current_buffer_size_,
                 delay_list_, heap, obj, deallocLog, reclaimLog, self,
                 sleep_deadline, dtor_now, readerRef>>
  /\ UNCHANGED thrown

\* ~deferred_reclamation_allocator(), step 3: the current buffer's elements
\* [0, current_buffer_size_) are reclaimed and the buffer is deleted.
DtorReclaimCurrent(a, hp, w, now) ==
  LET cur == current_buffer_[a]
      w2 == IF current_buffer_empty(a) THEN w
            ELSE reclaim_buffer_elements(w, hp[cur].elements, 1,
                                         current_buffer_size_[a])
  IN /\ heap' = buffer_delete(hp, cur)
     /\ obj' = w2.obj
     /\ reclaimLog' = w2.log
     /\ life' = [life EXCEPT ![a] = "destroyed"]
     /\ Return(a, <<>>, now)

\* ~deferred_reclamation_allocator() once purge(exhaustive) has returned:
\* `if (!current_buffer_empty()) { if (now <= ready_to_delete) sleep_until(..)`
DtorTail(a, hp, w, now, dnow) ==
  LET ready_to_delete == hp[current_buffer_[a]].timestamp + timeout_ IN
  IF ~current_buffer_empty(a) /\ dnow <= ready_to_delete
    THEN /\ heap' = hp
         /\ obj' = w.obj
         /\ reclaimLog' = w.log
         /\ life' = life
         /\ Sleep(a, <<>>, now, "dtor_buffer_sleep", ready_to_delete, dnow)
    ELSE DtorReclaimCurrent(a, hp, w, now)

\* purge(exhaustive) after a run of its loop has left s = [dl, hp, w]: on a
\* non-empty list it sleeps until the head's deadline; on the empty list it
\* returns, to the caller or into the destructor.
ExhaustiveNext(a, s, now, inDtor, dnow) ==
  IF s.dl # <<>>
    THEN /\ heap' = s.hp
         /\ obj' = s.w.obj
         /\ reclaimLog' = s.w.log
         /\ life' = life
         /\ Sleep(a, s.dl, now,
                  IF inDtor THEN "dtor_purge_sleep" ELSE "purge_sleep",
                  s.hp[Head(s.dl)].timestamp + timeout_, dnow)
    ELSE IF inDtor
      THEN DtorTail(a, s.hp, s.w, now, dnow)
      ELSE /\ heap' = s.hp
           /\ obj' = s.w.obj
           /\ reclaimLog' = s.w.log
           /\ life' = life
           /\ Return(a, s.dl, now)

\* Mutant: the opportunistic purge waits for the entries that are not ready.
PurgeOpportunisticWaiting(a) ==
  /\ Callable(a)
  /\ ExhaustiveNext(a,
       purge_loop([dl |-> delay_list_[a], hp |-> heap,
                   w |-> [obj |-> obj, log |-> reclaimLog]],
                  clock, timeout_, buffer_capacity_),
       clock, FALSE, 0)
  /\ UNCHANGED <<clock, config, aside, current_buffer_, current_buffer_size_,
                 deallocLog, readerRef>>
  /\ thrown' = "none"

\* purge(purge_mode::opportunistic)
PurgeOpportunistic(a) ==
  /\ Callable(a)
  /\ LET s == purge_loop([dl |-> delay_list_[a], hp |-> heap,
                          w |-> [obj |-> obj, log |-> reclaimLog]],
                         clock, timeout_, buffer_capacity_)
     IN /\ heap' = s.hp
        /\ obj' = s.w.obj
        /\ reclaimLog' = s.w.log
        /\ Return(a, s.dl, clock)
  /\ UNCHANGED <<clock, config, aside, life, current_buffer_, current_buffer_size_,
                 deallocLog, readerRef>>
  /\ thrown' = "none"

\* purge(purge_mode::exhaustive), up to its return or its first sleep.
PurgeExhaustive(a) ==
  /\ Callable(a)
  /\ ExhaustiveNext(a,
       purge_loop([dl |-> delay_list_[a], hp |-> heap,
                   w |-> [obj |-> obj, log |-> reclaimLog]],
                  clock, timeout_, buffer_capacity_),
       clock, FALSE, 0)
  /\ UNCHANGED <<clock, config, aside, current_buffer_, current_buffer_size_,
                 deallocLog, readerRef>>
  /\ UNCHANGED thrown

\* Mutant: after the sleep the head of the delay list is left where it is.
PurgeWakeWithoutPop(a) ==
  /\ pc \in {"purge_sleep", "dtor_purge_sleep"}
  /\ self = a
  /\ sleep_until_returns(clock, sleep_deadline)
  /\ LET s1 == [dl |-> delay_list_[a], hp |-> heap,
                w |-> [obj |-> obj, log |-> reclaimLog]]
         now == sleep_deadline
     IN ExhaustiveNext(a,
          purge_loop(s1, now, timeout_, buffer_capacity_),
          now, pc = "dtor_purge_sleep", dtor_now)
  /\ UNCHANGED <<clock, config, aside, current_buffer_, current_buffer_size_,
                 deallocLog, readerRef>>
  /\ UNCHANGED thrown

\* purge(exhaustive) after sleep_until(ready_to_delete) has returned: the head
\* is disposed of, now_ = ready_to_delete, and the loop goes on.
PurgeWake(a) ==
  /\ pc \in {"purge_sleep", "dtor_purge_sleep"}
  /\ self = a
  /\ sleep_until_returns(clock, sleep_deadline)
  /\ LET s1 == pop_front_and_dispose(
                  [dl |-> delay_list_[a], hp |-> heap,
                   w |-> [obj |-> obj, log |-> reclaimLog]],
                  buffer_capacity_)
         now == sleep_deadline
     IN ExhaustiveNext(a,
          purge_loop(s1, now, timeout_, buffer_capacity_),
          now, pc = "dtor_purge_sleep", dtor_now)
  /\ UNCHANGED <<clock, config, aside, current_buffer_, current_buffer_size_,
                 deallocLog, readerRef>>
  /\ UNCHANGED thrown

\* ~deferred_reclamation_allocator() of a moved-from allocator: nothing to do.
DestroyMovedFrom(a) ==
  /\ pc = "idle"
  /\ life[a] = "alive"
  /\ was_moved_from(a)
  /\ life' = [life EXCEPT ![a] = "destroyed"]
  /\ UNCHANGED <<clock, config, aside, fields, heap, obj, deallocLog, reclaimLog,
                 caller, readerRef>>
  /\ thrown' = "none"

\* Mutant: the destructor does not stamp the current buffer, whose timestamp
\* is the one its bytes were left with.
DestroyWithoutStamp(a) ==
  /\ pc = "idle"
  /\ life[a] = "alive"
  /\ ~was_moved_from(a)
  /\ ExhaustiveNext(a,
       purge_loop([dl |-> delay_list_[a], hp |-> heap,
                   w |-> [obj |-> obj, log |-> reclaimLog]],
                  clock, timeout_, buffer_capacity_),
       clock, TRUE, clock)
  /\ UNCHANGED <<clock, config, aside, current_buffer_, current_buffer_size_,
                 deallocLog, readerRef>>
  /\ thrown' = "none"

\* ~deferred_reclamation_allocator(): the current buffer is stamped with the
\* clock, the delay list is purged exhaustively, then the current buffer is
\* handled; up to the return or the first sleep.
Destroy(a) ==
  /\ pc = "idle"
  /\ life[a] = "alive"
  /\ ~was_moved_from(a)
  /\ LET now == clock
         hp1 == [heap EXCEPT ![current_buffer_[a]].timestamp = now]
     IN ExhaustiveNext(a,
          purge_loop([dl |-> delay_list_[a], hp |-> hp1,
                      w |-> [obj |-> obj, log |-> reclaimLog]],
                     clock, timeout_, buffer_capacity_),
          clock, TRUE, now)
  /\ UNCHANGED <<clock, config, aside, current_buffer_, current_buffer_size_,
                 deallocLog, readerRef>>
  /\ thrown' = "none"

\* The destructor after sleep_until(ready_to_delete) for the current buffer.
DestroyWake(a) ==
  /\ pc = "dtor_buffer_sleep"
  /\ self = a
  /\ sleep_until_returns(clock, sleep_deadline)
  /\ DtorReclaimCurrent(a, heap, [obj |-> obj, log |-> reclaimLog], now_[a])
  /\ UNCHANGED <<clock, config, aside, current_buffer_, current_buffer_size_,
                 deallocLog, readerRef>>
  /\ UNCHANGED thrown

\* Mutant: a member-wise copy, which shares the current buffer and the delay
\* list with the source.
CopyConstructMemberwise(other, a) ==
  /\ Callable(other)
  /\ life[a] = "unborn"
  /\ life' = [life EXCEPT ![a] = "alive"]
  /\ now_' = [now_ EXCEPT ![a] = clock]
  /\ current_buffer_size_' = [current_buffer_size_ EXCEPT
                                ![a] = current_buffer_size_[other]]
  /\ delay_list_' = [delay_list_ EXCEPT ![a] = delay_list_[other]]
  /\ current_buffer_' = [current_buffer_ EXCEPT ![a] = current_buffer_[other]]
  /\ UNCHANGED <<clock, config, aside, heap, obj, deallocLog, reclaimLog, caller,
                 readerRef>>
  /\ thrown' = "none"

\* deferred_reclamation_allocator(other const&): settings are copied, the
\* delay list starts empty and a new current buffer is allocated.  (When
\* buffer_new() throws, no allocator comes into being.)
CopyConstruct(other, a) ==
  /\ Callable(other)
  /\ life[a] = "unborn"
  /\ FreeBuffers(heap) # {}
  /\ allocate_can_succeed(heap, obj)
  /\ life' = [life EXCEPT ![a] = "alive"]
  /\ now_' = [now_ EXCEPT ![a] = clock]
  /\ current_buffer_size_' = [current_buffer_size_ EXCEPT ![a] = 0]
  /\ delay_list_' = [delay_list_ EXCEPT ![a] = <<>>]
  /\ current_buffer_' = [current_buffer_ EXCEPT ![a] = LowestFree(heap)]
  /\ heap' = buffer_new(heap, buffer_capacity_)
  /\ UNCHANGED <<clock, config, aside, obj, deallocLog, reclaimLog, caller, readerRef>>
  /\ thrown' = "none"

\* deferred_reclamation_allocator(other&&): the current buffer, its size and
\* the delay list move over; other.current_buffer_ becomes nullptr.
MoveConstruct(other, a) ==
  /\ Callable(other)
  /\ life[a] = "unborn"
  /\ life' = [life EXCEPT ![a] = "alive"]
  /\ now_' = [now_ EXCEPT ![a] = clock]
  /\ current_buffer_size_' = [current_buffer_size_ EXCEPT
                                ![a] = current_buffer_size_[other]]
  /\ current_buffer_' = [current_buffer_ EXCEPT
                           ![a] = current_buffer_[other], ![other] = NULL]
  /\ delay_list_' = [delay_list_ EXCEPT
                       ![a] = delay_list_[other], ![other] = <<>>]
  /\ obj' = [p \in Pointers |->
               IF obj[p].pipe = other THEN [obj[p] EXCEPT !.pipe = a] ELSE obj[p]]
  /\ UNCHANGED <<clock, config, aside, heap, deallocLog, reclaimLog, caller, readerRef>>
  /\ thrown' = "none"

\* A concurrent reader gets hold of an object that has not been deallocated.
Acquire(p) ==
  /\ readerRef = NULL
  /\ obj[p].st = "live"
  /\ readerRef' = p
  /\ UNCHANGED <<clock, config, aside, life, fields, heap, obj, deallocLog,
                 reclaimLog, caller>>
  /\ UNCHANGED thrown

\* The reader lets go of its reference.
Release ==
  /\ readerRef # NULL
  /\ readerRef' = NULL
  /\ UNCHANGED <<clock, config, aside, life, fields, heap, obj, deallocLog,
                 reclaimLog, caller>>
  /\ UNCHANGED thrown

\* ------------------------------------------------------------ specifications

Next ==
  \/ Tick
  \/ \E a \in Allocators : Allocate(a)
  \/ \E a \in Allocators, p \in Pointers : DeallocateBuffered(a, p)
  \/ \E a \in Allocators, p \in Pointers : DeallocateRecycle(a, p)
  \/ \E a \in Allocators, p \in Pointers : DeallocateNewBuffer(a, p)
  \/ \E a \in Allocators, p \in Pointers : DeallocateBadAlloc(a, p)
  \/ \E a \in Allocators : DeallocateRecover(a)
  \/ \E a \in Allocators : DeallocateRecoverAssert(a)
  \/ \E a \in Allocators : PurgeOpportunistic(a)
  \/ \E a \in Allocators : PurgeExhaustive(a)
  \/ \E a \in Allocators : PurgeWake(a)
  \/ \E a \in Allocators : Destroy(a)
  \/ \E a \in Allocators : DestroyMovedFrom(a)
  \/ \E a \in Allocators : DestroyWake(a)

\* One allocator, from its construction to its destruction.
Spec == Init /\ [][Next]_vars

\* The same with copy and move construction of a second allocator.
NextLife ==
  \/ Next
  \/ \E a, b \in Allocators : CopyConstruct(a, b)
  \/ \E a, b \in Allocators : MoveConstruct(a, b)

\* Copy and move construction are explored from the shorter of the timeouts.
InitLife == Init /\ \A t \in Timeouts : timeout_ <= t

SpecLife == InitLife /\ [][NextLife]_vars

\* One allocator over a utils::bounded_allocator, whose allocate(n) can fail.
InitOOM ==
  /\ timeout_ \in Timeouts
  /\ buffer_capacity_ \in Capacities
  /\ max_live_allocations_ \in Caps
  /\ Constructed
  /\ thrown = "none"
  /\ operands = <<>>
  /\ verdict = NoVerdict
  /\ ChannelUnused
  /\ MutexUnused
  /\ AlgorithmUnused

NextOOM ==
  \/ Next
  \/ \E a \in Allocators : AllocateThrows(a)

SpecOOM == InitOOM /\ [][NextOOM]_vars

\* One allocator whose caller also calls destroy(p).
NextDestroy ==
  \/ Next
  \/ \E a \in Allocators, p \in Pointers : destroy(a, p)

SpecDestroy == Init /\ [][NextDestroy]_vars

\* ---------------------------------------------- operator== and operator!=

\* The wrapped allocator types the comparison is exercised with:
\* std::allocator, whose instances are all equal, and an allocator that is
\* equal to itself only (operator== is `&other == this`).
AllocatorKinds == {"AlwaysEqualAllocator", "SelfCompatibleAllocator"}

\* operator== of the wrapped allocator; `this` is the address of the object.
allocator_equal(x, y) ==
  IF x.kind = "SelfCompatibleAllocator" THEN x.this = y.this ELSE TRUE

\* Mutant: the capacity of the delay buffer takes part in the comparison.
operator_eq_with_capacity(a, b) ==
  /\ a.timeout_ = b.timeout_
  /\ allocator_equal(a.allocator_, b.allocator_)
  /\ a.buffer_capacity_ = b.buffer_capacity_

\* friend bool operator==(a, b)
operator_eq(a, b) ==
  a.timeout_ = b.timeout_ /\ allocator_equal(a.allocator_, b.allocator_)

\* friend bool operator!=(a, b)
operator_ne(a, b) == ~operator_eq(a, b)

\* A deferred_reclamation_allocator object at address `this`, as far as a
\* comparison can tell: its settings, the fill of its current buffer and
\* the number of sealed buffers on its delay list.
Operand(kind, this, timeout, capacity, size, sealed) ==
  [allocator_ |-> [kind |-> kind, this |-> this], timeout_ |-> timeout,
   buffer_capacity_ |-> capacity, current_buffer_size_ |-> size,
   delay_list_ |-> sealed]

\* deferred_reclamation_allocator(other const&) into the object at `this`.
copy_of(other, this) ==
  Operand(other.allocator_.kind, this, other.timeout_,
          other.buffer_capacity_, 0, 0)

\* Two allocators over the same wrapped allocator type, each in any state.
InitCompare ==
  /\ timeout_ \in Timeouts /\ \A t \in Timeouts : timeout_ <= t
  /\ buffer_capacity_ \in Capacities
  /\ \A c \in Capacities : buffer_capacity_ <= c
  /\ max_live_allocations_ = Unbounded
  /\ Constructed
  /\ thrown = "none"
  /\ \E kind \in AllocatorKinds :
       \E ta, tb \in Timeouts, ca, cb \in Capacities, la, lb \in 0..1 :
         \E sa \in 0..(ca - 1), sb \in 0..(cb - 1) :
           operands = <<Operand(kind, 1, ta, ca, sa, la),
                        Operand(kind, 2, tb, cb, sb, lb)>>
  /\ verdict = NoVerdict
  /\ ChannelUnused
  /\ MutexUnused
  /\ AlgorithmUnused

\* The caller evaluates a == b and a != b on two of the objects.
Compare(i, j) ==
  /\ i \in DOMAIN operands /\ j \in DOMAIN operands
  /\ verdict' = [a |-> i, b |-> j,
                 eq |-> operator_eq(operands[i], operands[j]),
                 ne |-> operator_ne(operands[i], operands[j])]
  /\ UNCHANGED <<clock, config, channel, apart, life, fields, heap, obj,
                 deallocLog, reclaimLog, caller, readerRef, operands>>
  /\ UNCHANGED thrown

\* The caller copy-constructs a further object from one of the objects.
CompareCopy(i) ==
  /\ i \in DOMAIN operands
  /\ Len(operands) < MaxOperands
  /\ operands' = Append(operands, copy_of(operands[i], Len(operands) + 1))
  /\ UNCHANGED <<clock, config, channel, apart, life, fields, heap, obj,
                 deallocLog, reclaimLog, caller, readerRef, verdict>>
  /\ UNCHANGED thrown

NextCompare ==
  \/ \E i, j \in 1..MaxOperands : Compare(i, j)
  \/ \E i \in 1..MaxOperands : CompareCopy(i)

SpecCompare == InitCompare /\ [][NextCompare]_vars

\* One allocator with a concurrent reader of the allocated objects.
NextRCU ==
  \/ Next
  \/ \E p \in Pointers : Acquire(p)
  \/ Release

SpecRCU == Init /\ [][NextRCU]_vars

TypeOK ==
  /\ clock \in Nat
  /\ pc \in {"idle", "dealloc_sleep", "purge_sleep", "dtor_purge_sleep",
              "dtor_buffer_sleep", "aborted"}
  /\ \A a \in Allocators :
       /\ life[a] \in {"unborn", "alive", "destroyed"}
       /\ current_buffer_[a] \in BufferIds \cup {NULL}
       /\ current_buffer_size_[a] \in 0..buffer_capacity_

\* -------------------------------------------------- bounded_channel actions

ChannelOps == PushOps \cup PopOps \cup {"close"}

\* Mutant: the new element goes to the front of the queue.
queue_push_front(queue, va) == <<va>> \o queue

\* Mutant: front() hands out the newest element of the queue.
queue_front_back(queue) == queue[Len(queue)]

\* queue_.push(va), queue_.front(), queue_.pop()
queue_push(queue, va) == Append(queue, va)
queue_front(queue) == Head(queue)
queue_pop(queue) == Tail(queue)

\* Thread t is at place `to` of its call.
Goto(t, to) == [thread EXCEPT ![t] = [@ EXCEPT !.pc = to]]

\* The call of thread t returns `status`.
Returned(th, t, status) ==
  [th EXCEPT ![t] = [@ EXCEPT !.pc = "idle", !.op = "none", !.va = 0,
                              !.expired = FALSE, !.status = status]]

\* The threads of set ws leave their wait and go for the mutex again.
Woken(th, ws) ==
  [w \in Threads |-> IF w \in ws THEN [th[w] EXCEPT !.pc = "relock"] ELSE th[w]]

\* What the threads do with the channel: the first one produces and closes,
\* the last one consumes, the ones in between produce and consume.
OpsOf(t) ==
  IF t = 1 THEN PushOps \cup {"close"}
  ELSE IF t = MaxThreads THEN PopOps
  ELSE PushOps \cup PopOps

\* Thread t enters member function op, a pushing one with value va.  A call
\* without timeout_time starts when it gets the mutex; a call with one tries
\* to get it until timeout_time.
Enter(t, op, va) ==
  /\ thread[t].pc = "idle"
  /\ op \in PushOps => nextValue <= MaxPushes
  /\ IF op \in TimedOps
       THEN mutex_' = mutex_
       ELSE mutex_ = NULL /\ mutex_' = t
  /\ thread' = [thread EXCEPT ![t] =
                  [@ EXCEPT !.pc = IF op \in TimedOps THEN "lock" ELSE "locked",
                            !.op = op,
                            !.va = IF op \in PushOps THEN va ELSE 0,
                            !.expired = FALSE, !.status = "none"]]
  /\ nextValue' = IF op \in PushOps THEN nextValue + 1 ELSE nextValue
  /\ UNCHANGED <<capacity_, queue_, closed_, consumers_, producers_,
                 pushed, popped, pipeline, compare, drained>>

\* Thread t calls member function op; a pushing call carries a new value.
Call(t, op) ==
  /\ op \in OpsOf(t)
  /\ Enter(t, op, nextValue)
  /\ UNCHANGED iterators

\* timeout_time of the timed call thread t is in is reached.
Expire(t) ==
  /\ thread[t].op \in TimedOps
  /\ ~thread[t].expired
  /\ thread' = [thread EXCEPT ![t] = [@ EXCEPT !.expired = TRUE]]
  /\ UNCHANGED <<capacity_, queue_, closed_, mutex_, consumers_, producers_,
                 nextValue, pushed, popped, pipeline, compare, drained,
                 iterators>>

\* std::unique_lock<mutex_type> lock{mutex_, timeout_time} gets the mutex,
\* or a wait that has ended takes it again.
Lock(t) ==
  /\ thread[t].pc \in {"lock", "relock"}
  /\ mutex_ = NULL
  /\ mutex_' = t
  /\ thread' = Goto(t, "locked")
  /\ UNCHANGED <<capacity_, queue_, closed_, consumers_, producers_,
                 nextValue, pushed, popped, pipeline, compare, drained,
                 iterators>>

\* std::unique_lock<mutex_type> lock{mutex_, timeout_time} gives up:
\* `if (!lock.owns_lock()) return channel_op_status::timeout;`
LockTimeout(t) ==
  /\ thread[t].pc = "lock"
  /\ thread[t].op \in TimedOps
  /\ thread[t].expired
  /\ mutex_ # NULL
  /\ thread' = Returned(thread, t, "timeout")
  /\ UNCHANGED <<capacity_, queue_, closed_, mutex_, consumers_, producers_,
                 nextValue, pushed, popped, pipeline, compare, drained,
                 iterators>>

\* A pushing call finds the channel open and not full: queue_.push(va);
\* lock.unlock(); the notification of consumers_ is still to come.
PushEnqueue(t) ==
  /\ thread[t].pc = "locked"
  /\ thread[t].op \in PushOps
  /\ ~closed_
  /\ ~is_full(queue_, capacity_)
  /\ queue_' = queue_push(queue_, thread[t].va)
  /\ pushed' = Append(pushed, thread[t].va)
  /\ mutex_' = NULL
  /\ thread' = Goto(t, "notify")
  /\ UNCHANGED <<capacity_, closed_, consumers_, producers_, nextValue,
                 popped, pipeline, compare, drained,
                 iterators>>

\* A pushing call finds the channel closed: return channel_op_status::closed.
PushClosed(t) ==
  /\ thread[t].pc = "locked"
  /\ thread[t].op \in PushOps
  /\ closed_
  /\ mutex_' = NULL
  /\ thread' = Returned(thread, t, "closed")
  /\ UNCHANGED <<capacity_, queue_, closed_, consumers_, producers_,
                 nextValue, pushed, popped, pipeline, compare, drained,
                 iterators>>

\* Mutant: try_push() looks at is_full() before is_closed().
PushFullFirst(t) ==
  /\ thread[t].pc = "locked"
  /\ thread[t].op = "try_push"
  /\ is_full(queue_, capacity_)
  /\ mutex_' = NULL
  /\ thread' = Returned(thread, t, "full")
  /\ UNCHANGED <<capacity_, queue_, closed_, consumers_, producers_,
                 nextValue, pushed, popped, pipeline, compare, drained,
                 iterators>>

\* try_push() finds the channel open and full: return channel_op_status::full.
PushFull(t) ==
  /\ thread[t].pc = "locked"
  /\ thread[t].op = "try_push"
  /\ ~closed_
  /\ is_full(queue_, capacity_)
  /\ mutex_' = NULL
  /\ thread' = Returned(thread, t, "full")
  /\ UNCHANGED <<capacity_, queue_, closed_, consumers_, producers_,
                 nextValue, pushed, popped, pipeline, compare, drained,
                 iterators>>

\* push() or try_push_until() finds the channel open and full: the thread
\* waits on producers_, which releases the mutex.
PushWait(t) ==
  /\ thread[t].pc = "locked"
  /\ thread[t].op \in {"push", "try_push_until"}
  /\ ~closed_
  /\ is_full(queue_, capacity_)
  /\ ~thread[t].expired
  /\ producers_' = producers_ \cup {t}
  /\ mutex_' = NULL
  /\ thread' = Goto(t, "waiting")
  /\ UNCHANGED <<capacity_, queue_, closed_, consumers_, nextValue, pushed,
                 popped, pipeline, compare, drained,
                 iterators>>

\* try_push_until(): wait_until has timed out with the channel open and full.
PushTimeout(t) ==
  /\ thread[t].pc = "locked"
  /\ thread[t].op = "try_push_until"
  /\ ~closed_
  /\ is_full(queue_, capacity_)
  /\ thread[t].expired
  /\ mutex_' = NULL
  /\ thread' = Returned(thread, t, "timeout")
  /\ UNCHANGED <<capacity_, queue_, closed_, consumers_, producers_,
                 nextValue, pushed, popped, pipeline, compare, drained,
                 iterators>>

\* A popping call finds an element: va = std::move(queue_.front());
\* queue_.pop(); lock.unlock(); the notification of producers_ is to come.
PopDequeue(t) ==
  /\ thread[t].pc = "locked"
  /\ thread[t].op \in PopOps
  /\ ~is_empty(queue_)
  /\ queue_' = queue_pop(queue_)
  /\ popped' = Append(popped, queue_front(queue_))
  /\ drained' = IF closed_ THEN drained + 1 ELSE drained
  /\ mutex_' = NULL
  /\ thread' = [thread EXCEPT ![t] =
                  [@ EXCEPT !.pc = "notify", !.out = queue_front(queue_)]]
  /\ UNCHANGED <<capacity_, closed_, consumers_, producers_, nextValue,
                 pushed, pipeline, compare, iterators>>

\* Mutant: a popping call looks at is_closed() before is_empty().
PopClosedFirst(t) ==
  /\ thread[t].pc = "locked"
  /\ thread[t].op \in PopOps
  /\ closed_
  /\ mutex_' = NULL
  /\ thread' = Returned(thread, t, "closed")
  /\ UNCHANGED <<capacity_, queue_, closed_, consumers_, producers_,
                 nextValue, pushed, popped, pipeline, compare, drained,
                 iterators>>

\* A popping call finds the channel empty and closed.
PopClosed(t) ==
  /\ thread[t].pc = "locked"
  /\ thread[t].op \in PopOps
  /\ is_empty(queue_)
  /\ closed_
  /\ mutex_' = NULL
  /\ thread' = Returned(thread, t, "closed")
  /\ UNCHANGED <<capacity_, queue_, closed_, consumers_, producers_,
                 nextValue, pushed, popped, pipeline, compare, drained,
                 iterators>>

\* try_pop() finds the channel empty and open.
PopEmpty(t) ==
  /\ thread[t].pc = "locked"
  /\ thread[t].op = "try_pop"
  /\ is_empty(queue_)
  /\ ~closed_
  /\ mutex_' = NULL
  /\ thread' = Returned(thread, t, "empty")
  /\ UNCHANGED <<capacity_, queue_, closed_, consumers_, producers_,
                 nextValue, pushed, popped, pipeline, compare, drained,
                 iterators>>

\* pop() or try_pop_until() finds the channel empty and open: the thread
\* waits on consumers_, which releases the mutex.
PopWait(t) ==
  /\ thread[t].pc = "locked"
  /\ thread[t].op \in {"pop", "try_pop_until"}
  /\ is_empty(queue_)
  /\ ~closed_
  /\ ~thread[t].expired
  /\ consumers_' = consumers_ \cup {t}
  /\ mutex_' = NULL
  /\ thread' = Goto(t, "waiting")
  /\ UNCHANGED <<capacity_, queue_, closed_, producers_, nextValue, pushed,
                 popped, pipeline, compare, drained,
                 iterators>>

\* try_pop_until(): wait_until has timed out with the channel empty and open.
PopTimeout(t) ==
  /\ thread[t].pc = "locked"
  /\ thread[t].op = "try_pop_until"
  /\ is_empty(queue_)
  /\ ~closed_
  /\ thread[t].expired
  /\ mutex_' = NULL
  /\ thread' = Returned(thread, t, "timeout")
  /\ UNCHANGED <<capacity_, queue_, closed_, consumers_, producers_,
                 nextValue, pushed, popped, pipeline, compare, drained,
                 iterators>>

\* Mutant: a push or a pop returns success without its notify_one().
NotifyOneSkipped(t) ==
  /\ thread[t].pc = "notify"
  /\ thread' = Returned(thread, t, "success")
  /\ UNCHANGED <<capacity_, queue_, closed_, mutex_, consumers_, producers_,
                 nextValue, pushed, popped, pipeline, compare, drained,
                 iterators>>

\* consumers_.notify_one() after a push, producers_.notify_one() after a
\* pop: one waiting thread, if there is any, is woken; then the call
\* returns channel_op_status::success.
NotifyOne(t) ==
  /\ thread[t].pc = "notify"
  /\ IF thread[t].op \in PushOps
       THEN /\ \/ /\ consumers_ = {}
                  /\ thread' = Returned(thread, t, "success")
                  /\ consumers_' = consumers_
               \/ \E w \in consumers_ :
                    /\ thread' = Returned(Woken(thread, {w}), t, "success")
                    /\ consumers_' = consumers_ \ {w}
            /\ producers_' = producers_
       ELSE /\ \/ /\ producers_ = {}
                  /\ thread' = Returned(thread, t, "success")
                  /\ producers_' = producers_
               \/ \E w \in producers_ :
                    /\ thread' = Returned(Woken(thread, {w}), t, "success")
                    /\ producers_' = producers_ \ {w}
            /\ consumers_' = consumers_
  /\ UNCHANGED <<capacity_, queue_, closed_, mutex_, nextValue, pushed,
                 popped, pipeline, compare, drained,
                 iterators>>

\* close(): closed_ = true under the lock.
Close(t) ==
  /\ thread[t].pc = "locked"
  /\ thread[t].op = "close"
  /\ closed_' = TRUE
  /\ mutex_' = NULL
  /\ thread' = Goto(t, "notify_producers")
  /\ UNCHANGED <<capacity_, queue_, consumers_, producers_, nextValue,
                 pushed, popped, pipeline, compare, drained,
                 iterators>>

\* close(): producers_.notify_all()
NotifyProducers(t) ==
  /\ thread[t].pc = "notify_producers"
  /\ thread' = [Woken(thread, producers_) EXCEPT ![t].pc = "notify_consumers"]
  /\ producers_' = {}
  /\ UNCHANGED <<capacity_, queue_, closed_, mutex_, consumers_, nextValue,
                 pushed, popped, pipeline, compare, drained,
                 iterators>>

\* Mutant: close() returns without consumers_.notify_all().
NotifyConsumersSkipped(t) ==
  /\ thread[t].pc = "notify_consumers"
  /\ thread' = Returned(thread, t, "none")
  /\ UNCHANGED <<capacity_, queue_, closed_, mutex_, consumers_, producers_,
                 nextValue, pushed, popped, pipeline, compare, drained,
                 iterators>>

\* close(): consumers_.notify_all(), and the return.
NotifyConsumers(t) ==
  /\ thread[t].pc = "notify_consumers"
  /\ thread' = Returned(Woken(thread, consumers_), t, "none")
  /\ consumers_' = {}
  /\ UNCHANGED <<capacity_, queue_, closed_, mutex_, producers_, nextValue,
                 pushed, popped, pipeline, compare, drained,
                 iterators>>

\* A wait_until of thread t ends because timeout_time has been reached.
WaitTimeout(t) ==
  /\ thread[t].pc = "waiting"
  /\ thread[t].expired
  /\ thread' = Goto(t, "relock")
  /\ consumers_' = consumers_ \ {t}
  /\ producers_' = producers_ \ {t}
  /\ UNCHANGED <<capacity_, queue_, closed_, mutex_, nextValue, pushed,
                 popped, pipeline, compare, drained,
                 iterators>>

\* A wait of thread t ends without notification (a spurious wakeup).
SpuriousWake(t) ==
  /\ thread[t].pc = "waiting"
  /\ thread' = Goto(t, "relock")
  /\ consumers_' = consumers_ \ {t}
  /\ producers_' = producers_ \ {t}
  /\ UNCHANGED <<capacity_, queue_, closed_, mutex_, nextValue, pushed,
                 popped, pipeline, compare, drained,
                 iterators>>

\* Threads using one channel of any of the capacities.
InitChannel ==
  /\ timeout_ \in Timeouts /\ \A t \in Timeouts : timeout_ <= t
  /\ buffer_capacity_ \in Capacities
  /\ \A c \in Capacities : buffer_capacity_ <= c
  /\ max_live_allocations_ = Unbounded
  /\ Constructed
  /\ thrown = "none"
  /\ operands = <<>>
  /\ verdict = NoVerdict
  /\ \E c \in ChannelCapacities : bounded_channel(c)
  /\ MutexUnused
  /\ AlgorithmUnused

NextChannel ==
  \/ \E t \in Threads, op \in ChannelOps : Call(t, op)
  \/ \E t \in Threads : Expire(t)
  \/ \E t \in Threads : Lock(t)
  \/ \E t \in Threads : LockTimeout(t)
  \/ \E t \in Threads : PushEnqueue(t)
  \/ \E t \in Threads : PushClosed(t)
  \/ \E t \in Threads : PushFull(t)
  \/ \E t \in Threads : PushWait(t)
  \/ \E t \in Threads : PushTimeout(t)
  \/ \E t \in Threads : PopDequeue(t)
  \/ \E t \in Threads : PopClosed(t)
  \/ \E t \in Threads : PopEmpty(t)
  \/ \E t \in Threads : PopWait(t)
  \/ \E t \in Threads : PopTimeout(t)
  \/ \E t \in Threads : NotifyOne(t)
  \/ \E t \in Threads : Close(t)
  \/ \E t \in Threads : NotifyProducers(t)
  \/ \E t \in Threads : NotifyConsumers(t)
  \/ \E t \in Threads : WaitTimeout(t)
  \/ \E t \in Threads : SpuriousWake(t)

SpecChannel == InitChannel /\ [][NextChannel]_vars

\* ----------------------------------- bounded_channel, blocking calls only

\* The member functions that wait without a timeout_time, and close().
BlockingOps == {"push", "pop", "close"}

\* What thread t does next when it is scheduled, once it is in a call and
\* neither waiting nor after the mutex.
Run(t) ==
  \/ PushEnqueue(t)
  \/ PushClosed(t)
  \/ PushWait(t)
  \/ PopDequeue(t)
  \/ PopClosed(t)
  \/ PopWait(t)
  \/ NotifyOne(t)
  \/ Close(t)
  \/ NotifyProducers(t)
  \/ NotifyConsumers(t)

NextBlocking ==
  \/ \E t \in Threads, op \in BlockingOps : Call(t, op)
  \/ \E t \in Threads : Lock(t)
  \/ \E t \in Threads : PushEnqueue(t)
  \/ \E t \in Threads : PushClosed(t)
  \/ \E t \in Threads : PushWait(t)
  \/ \E t \in Threads : PopDequeue(t)
  \/ \E t \in Threads : PopClosed(t)
  \/ \E t \in Threads : PopWait(t)
  \/ \E t \in Threads : NotifyOne(t)
  \/ \E t \in Threads : Close(t)
  \/ \E t \in Threads : NotifyProducers(t)
  \/ \E t \in Threads : NotifyConsumers(t)
  \/ \E t \in Threads : SpuriousWake(t)

\* Fair scheduling: a thread that can run does run, and a thread that is
\* after the mutex gets it if the mutex is free again and again.  Nothing
\* obliges a thread to make a call, and no wait has to end unnotified.
FairBlocking ==
  \A t \in Threads : WF_vars(Run(t)) /\ SF_vars(Lock(t))

SpecBlocking == InitChannel /\ [][NextBlocking]_vars /\ FairBlocking

\* ------------------------------------------------ bounded_channel::iterator

\* friend bool operator==(iterator const& a, iterator const& b)
iterator_eq(a, b) == a.channel_ = b.channel_ /\ a.value_ = b.value_

\* The thread that fills and closes the channel, and the threads that
\* iterate over it.
MainThread == 1
IteratorThreads == Threads \ {MainThread}

\* The main thread calls push(v) or close().
MainOps == {"push", "close"}
MainCall(op, v) ==
  /\ op \in MainOps
  /\ Enter(MainThread, op, v)
  /\ UNCHANGED iterators

\* Thread t calls begin(): iterator{*this}, whose constructor sets channel_
\* and value_ and goes into ++*this, which calls channel_->pop(value_).
Begin(t) ==
  /\ ~iterators[t].born
  /\ Enter(t, "pop", None)
  /\ iterators' = [iterators EXCEPT ![t] =
                     [born |-> TRUE, channel_ |-> ChannelAddress,
                      value_ |-> None, incrementing |-> TRUE, seen |-> <<>>]]

\* Thread t calls operator++ on its iterator, which is not past the end:
\* channel_->pop(value_).
Increment(t) ==
  /\ iterators[t].born
  /\ ~iterators[t].incrementing
  /\ iterators[t].channel_ # NULL
  /\ Enter(t, "pop", None)
  /\ iterators' = [iterators EXCEPT ![t].incrementing = TRUE]

\* Mutant: an iterator that finds the channel closed and empty keeps the
\* value it held.
IncrementReturnKeepsValue(t) ==
  /\ iterators[t].incrementing
  /\ thread[t].pc = "idle"
  /\ thread[t].status \in {"success", "closed"}
  /\ iterators' = [iterators EXCEPT ![t] =
       IF thread[t].status = "success"
         THEN [@ EXCEPT !.value_ = thread[t].out,
                        !.seen = Append(@, thread[t].out),
                        !.incrementing = FALSE]
         ELSE [@ EXCEPT !.channel_ = NULL, !.incrementing = FALSE]]
  /\ UNCHANGED <<capacity_, queue_, closed_, mutex_, consumers_, producers_,
                 thread, nextValue, pushed, popped, drained, pipeline,
                 compare>>

\* The pop() of operator++ has returned: on success the iterator holds the
\* value popped, on closed it becomes past-the-end.
IncrementReturn(t) ==
  /\ iterators[t].incrementing
  /\ thread[t].pc = "idle"
  /\ thread[t].status \in {"success", "closed"}
  /\ iterators' = [iterators EXCEPT ![t] =
       IF thread[t].status = "success"
         THEN [@ EXCEPT !.value_ = thread[t].out,
                        !.seen = Append(@, thread[t].out),
                        !.incrementing = FALSE]
         ELSE [@ EXCEPT !.channel_ = NULL, !.value_ = None,
                        !.incrementing = FALSE]]
  /\ UNCHANGED <<capacity_, queue_, closed_, mutex_, consumers_, producers_,
                 thread, nextValue, pushed, popped, drained, pipeline,
                 compare>>

NextIterator ==
  \/ \E op \in MainOps, v \in Values : MainCall(op, v)
  \/ \E t \in IteratorThreads : Begin(t)
  \/ \E t \in IteratorThreads : Increment(t)
  \/ \E t \in IteratorThreads : IncrementReturn(t)
  \/ \E t \in Threads : Lock(t)
  \/ \E t \in Threads : PushEnqueue(t)
  \/ \E t \in Threads : PushClosed(t)
  \/ \E t \in Threads : PushWait(t)
  \/ \E t \in Threads : PopDequeue(t)
  \/ \E t \in Threads : PopClosed(t)
  \/ \E t \in Threads : PopWait(t)
  \/ \E t \in Threads : NotifyOne(t)
  \/ \E t \in Threads : Close(t)
  \/ \E t \in Threads : NotifyProducers(t)
  \/ \E t \in Threads : NotifyConsumers(t)
  \/ \E t \in Threads : SpuriousWake(t)

SpecIterator == InitChannel /\ [][NextIterator]_vars

\* ------------------------------------------------ small_spin_mutex actions

\* Everything but the mutex and the threads that use it.
beside == <<clock, timeout_, buffer_capacity_, max_live_allocations_, life,
            now_, current_buffer_, current_buffer_size_, delay_list_, heap,
            obj, deallocLog, reclaimLog, pc, self, sleep_deadline, dtor_now,
            readerRef, thrown, compare, channel, algorithm>>

\* Mutant: try_lock() tests the flag without setting it.
try_lock_test_only(t) ==
  /\ locker[t].pc \in {"out", "owner"}
  /\ flag_' = flag_
  /\ locker' = [locker EXCEPT ![t] =
                  [pc |-> IF flag_ THEN @.pc ELSE "owner",
                   last |-> "try_lock", ret |-> ~flag_]]
  /\ UNCHANGED beside

\* bool try_lock(): return !flag_.test_and_set(acquire).  The caller may own
\* the mutex already, and then gets false.
try_lock(t) ==
  /\ locker[t].pc \in {"out", "owner"}
  /\ flag_' = TRUE
  /\ locker' = [locker EXCEPT ![t] =
                  [pc |-> IF flag_ THEN @.pc ELSE "owner",
                   last |-> "try_lock", ret |-> ~flag_]]
  /\ UNCHANGED beside

\* void lock() is called by a thread that does not own the mutex.
lock(t) ==
  /\ locker[t].pc = "out"
  /\ locker' = [locker EXCEPT ![t] = [@ EXCEPT !.pc = "spin", !.last = "lock"]]
  /\ UNCHANGED <<flag_, beside>>

\* One turn of `while (!try_lock())`: the thread goes on spinning, or the
\* loop ends and lock() returns.
spin(t) ==
  /\ locker[t].pc = "spin"
  /\ flag_' = TRUE
  /\ locker' = [locker EXCEPT ![t].pc = IF flag_ THEN "spin" ELSE "owner"]
  /\ UNCHANGED beside

\* void unlock(), called by the owner: flag_.clear(release).
unlock(t) ==
  /\ locker[t].pc = "owner"
  /\ flag_' = FALSE
  /\ locker' = [locker EXCEPT ![t] = [@ EXCEPT !.pc = "out", !.last = "unlock"]]
  /\ UNCHANGED beside

InitMutex ==
  /\ timeout_ \in Timeouts /\ \A t \in Timeouts : timeout_ <= t
  /\ buffer_capacity_ \in Capacities
  /\ \A c \in Capacities : buffer_capacity_ <= c
  /\ max_live_allocations_ = Unbounded
  /\ Constructed
  /\ thrown = "none"
  /\ operands = <<>>
  /\ verdict = NoVerdict
  /\ ChannelUnused
  /\ small_spin_mutex
  /\ AlgorithmUnused

NextMutex ==
  \/ \E t \in Threads : try_lock(t)
  \/ \E t \in Threads : lock(t)
  \/ \E t \in Threads : spin(t)
  \/ \E t \in Threads : unlock(t)

SpecMutex == InitMutex /\ [][NextMutex]_vars

\* ---------------------------------------------- remove_and_copy_if actions

\* Everything but the call of remove_and_copy_if.
around == <<clock, timeout_, buffer_capacity_, max_live_allocations_, life,
            now_, current_buffer_, current_buffer_size_, delay_list_, heap,
            obj, deallocLog, reclaimLog, pc, self, sleep_deadline, dtor_now,
            readerRef, thrown, compare, channel, flag_, locker>>

\* One turn of std::find_if(first, last, pred): at last, or at an element
\* that satisfies pred, the search ends and the loop starts at compress.
find_if ==
  /\ algorithm.pc = "find_if"
  /\ LET c == algorithm IN
       algorithm' =
         IF c.first = c.last
           THEN [c EXCEPT !.compress = c.first, !.pc = "for"]
         ELSE IF c.range[c.first] \in c.pred
           THEN [c EXCEPT !.applications = @ + 1, !.compress = c.first,
                          !.pc = "for"]
         ELSE [c EXCEPT !.applications = @ + 1, !.first = @ + 1]
  /\ UNCHANGED around

\* One turn of `for (first = compress; first != last; ++first)`: the element
\* goes to the output range if it satisfies pred and to compress otherwise;
\* at last the function returns.
for_loop ==
  /\ algorithm.pc = "for"
  /\ LET c == algorithm
         v == c.range[c.first] IN
       algorithm' =
         IF c.first = c.last
           THEN [c EXCEPT !.pc = "return"]
         ELSE IF v \in c.pred
           THEN [c EXCEPT !.applications = @ + 1, !.copies = @ + 1,
                          !.result = Append(@, v), !.first = @ + 1]
         ELSE [c EXCEPT !.applications = @ + 1, !.copies = @ + 1,
                        !.range = [@ EXCEPT ![c.compress] = v],
                        !.compress = @ + 1, !.first = @ + 1]
  /\ UNCHANGED around

\* A call of remove_and_copy_if with any range and any predicate.
InitAlgorithm ==
  /\ timeout_ \in Timeouts /\ \A t \in Timeouts : timeout_ <= t
  /\ buffer_capacity_ \in Capacities
  /\ \A c \in Capacities : buffer_capacity_ <= c
  /\ max_live_allocations_ = Unbounded
  /\ Constructed
  /\ thrown = "none"
  /\ operands = <<>>
  /\ verdict = NoVerdict
  /\ ChannelUnused
  /\ MutexUnused
  /\ \E range \in Ranges, pred \in SUBSET Elements :
       algorithm = remove_and_copy_if(range, pred)

NextAlgorithm == find_if \/ for_loop

SpecAlgorithm == InitAlgorithm /\ [][NextAlgorithm]_vars

\* ------------------------------------------------------------------ claims

\* p is reclaimed (destroyed and deallocated through allocator_) in this step.
ReclaimedInStep(p) == obj'[p].nfree > obj[p].nfree \/ obj'[p].ndestroy > obj[p].ndestroy

\* The entry of p sits in the first current_buffer_size_ elements of the
\* current buffer of allocator a.
InCurrentBuffer(a, p) ==
  /\ current_buffer_[a] # NULL
  /\ \E i \in 1..current_buffer_size_[a] :
       i <= buffer_capacity_ /\ heap[current_buffer_[a]].elements[i].p = p

\* The entry of p sits in a sealed buffer on the delay list of allocator a.
InDelayList(a, p) ==
  \E k \in 1..Len(delay_list_[a]) : \E i \in 1..buffer_capacity_ :
    heap[delay_list_[a][k]].elements[i].p = p

\* C1: whatever path reclaims an entry (opportunistic or exhaustive purge, the
\* purge at sealing, the recovery after a failed buffer allocation, the
\* destructor), the clock then reads at least the clock value of its
\* deallocate call plus the timeout.
C1_NoSoonerThanTimeout ==
  [][\A p \in Pointers :
       ReclaimedInStep(p) => clock' >= obj'[p].dtime + timeout_]_vars

\* C1 witness: an entry has been reclaimed while a later one is still pending.
C1_Witness ==
  \E p, q \in Pointers :
    /\ obj[p].st = "reclaimed" /\ obj[p].nfree = 1
    /\ obj[q].st = "pending"
    /\ clock >= obj[p].dtime + timeout_

\* C2 (as claimed): the time between an entry's deallocate call and its
\* destruction is strictly greater than the timeout on every path.
C2_StrictlyLater ==
  [][\A p \in Pointers :
       ReclaimedInStep(p) => clock' > obj'[p].dtime + timeout_]_vars

\* C3 (as claimed): with readers that let go of an object within the timeout
\* of its deallocate call, no reader holds an object that has been destroyed
\* and given back to the underlying allocator.
C3_NoReaderOnReclaimed ==
  readerRef # NULL => obj[readerRef].st # "reclaimed"

\* C4 (as claimed): once an allocator that was never moved from has been
\* destroyed, every entry deallocated through it has been destroyed exactly
\* once (n destructor calls for its n objects) and deallocated exactly once.
C4_AllReclaimedOnce ==
  \A a \in Allocators : life[a] = "destroyed" =>
    \A p \in Pointers : obj[p].pipe = a =>
      obj[p].st = "reclaimed" /\ obj[p].nfree = 1 /\ obj[p].ndestroy = obj[p].n

\* s is a prefix of t.
IsPrefix(s, t) == Len(s) <= Len(t) /\ SubSeq(t, 1, Len(s)) = s

\* C5: the entries of one allocator are reclaimed in exactly the order in
\* which deallocate received them: the sequence of reclaimed pointers is at
\* all times a prefix of the sequence of deallocated pointers.
C5_ReclaimedInDeallocateOrder == IsPrefix(reclaimLog, deallocLog)

\* C5 witness: a destroyed allocator of capacity 2 has reclaimed a sealed
\* buffer and then its unsealed current buffer, three entries that were not
\* deallocated in pointer order.
C5_Witness ==
  /\ life[1] = "destroyed"
  /\ buffer_capacity_ = 2
  /\ Len(reclaimLog) = 3
  /\ reclaimLog[1] # 1

\* The pointer given to the latest deallocate call.
LastDeallocated == deallocLog[Len(deallocLog)]

\* The entry of p is pending in the pipeline of allocator a.
PendingInPipeline(a, p) ==
  obj[p].st = "pending" /\ (InCurrentBuffer(a, p) \/ InDelayList(a, p))

\* The entry of the latest deallocate call is pending on the delay list.
LastPendingOnList(a) ==
  obj[LastDeallocated].st = "pending" /\ InDelayList(a, LastDeallocated)

\* C6 (as claimed): when deallocate(p, n) returns, by whichever path, the
\* entry of p is still pending, in the current buffer or on the delay list.
C6_PendingAtReturn ==
  [][\A a \in Allocators :
       (\/ (\E p \in Pointers : DeallocateBuffered(a, p) \/ DeallocateRecycle(a, p)
                                 \/ DeallocateNewBuffer(a, p))
        \/ DeallocateRecover(a))
       => PendingInPipeline(a, LastDeallocated)']_vars

\* C6 (amended): a deallocate(p, n) in which no buffer allocation fails
\* returns with the entry of p pending, in the current buffer or on the delay
\* list; one that has to recover from a failed buffer allocation goes to
\* sleep with the entry pending on the delay list, and returns with the entry
\* either still pending there or reclaimed by its own purge.
C6_PendingUnlessRecovered ==
  [][\A a \in Allocators :
       /\ (\E p \in Pointers : DeallocateBuffered(a, p) \/ DeallocateRecycle(a, p)
                                \/ DeallocateNewBuffer(a, p))
            => PendingInPipeline(a, LastDeallocated)'
       /\ (\E p \in Pointers : DeallocateBadAlloc(a, p))
            => LastPendingOnList(a)'
       /\ DeallocateRecover(a)
            => \/ LastPendingOnList(a)'
               \/ (obj'[LastDeallocated].st = "reclaimed"
                   /\ ReclaimedInStep(LastDeallocated))]_vars

\* C6 witness: a deallocate has just sealed the buffer holding its entry.
C6_Witness ==
  /\ pc = "idle"
  /\ deallocLog # <<>>
  /\ obj[LastDeallocated].st = "pending"
  /\ InDelayList(1, LastDeallocated)
  /\ current_buffer_size_[1] = 0
  /\ reclaimLog # <<>>

\* C7 (as claimed): when buffer_new() fails inside deallocate, the purge that
\* runs after the sleep always hands back a buffer: deallocate returns with
\* a non-null, empty current buffer that is no longer on the delay list.
C7_RecoveryYieldsBuffer ==
  [][\A a \in Allocators : DeallocateRecover(a) =>
       /\ current_buffer_'[a] # NULL
       /\ current_buffer_size_'[a] = 0
       /\ \A k \in 1..Len(delay_list_'[a]) :
            delay_list_'[a][k] # current_buffer_'[a]]_vars

\* C8 (as claimed): between operations, an allocator that has not been
\* moved from has a non-null current buffer whose fill is below capacity.
\* (Under Spec no allocator is ever moved from.)
C8_CurrentBufferUsable ==
  \A a \in Allocators : pc = "idle" /\ life[a] = "alive" =>
    current_buffer_[a] # NULL /\ current_buffer_size_[a] < buffer_capacity_

\* A step of purge() called by the user, in either mode.
PurgeStep(a) ==
  \/ PurgeOpportunistic(a)
  \/ PurgeExhaustive(a)
  \/ pc = "purge_sleep" /\ PurgeWake(a)

\* C9: purge, in either mode, leaves the current buffer, its fill and its
\* elements as they were, and reclaims none of the entries held in it.
C9_PurgeSparesCurrentBuffer ==
  [][\A a \in Allocators : PurgeStep(a) =>
       /\ current_buffer_'[a] = current_buffer_[a]
       /\ current_buffer_size_'[a] = current_buffer_size_[a]
       /\ heap'[current_buffer_[a]] = heap[current_buffer_[a]]
       /\ \A p \in Pointers : InCurrentBuffer(a, p) => obj'[p] = obj[p]]_vars

\* C9 witness: the allocator has read the clock in a purge after the timeout
\* of an entry of its current buffer had elapsed, and the entry is pending.
C9_Witness ==
  \E p \in Pointers :
    /\ pc = "idle" /\ life[1] = "alive"
    /\ InCurrentBuffer(1, p)
    /\ obj[p].st = "pending"
    /\ now_[1] > obj[p].dtime + timeout_
    /\ reclaimLog # <<>>

\* purge(exhaustive) returns to the user in this step.
ExhaustiveReturns(a) ==
  /\ PurgeExhaustive(a) \/ (pc = "purge_sleep" /\ PurgeWake(a))
  /\ pc' = "idle"

\* C10: when purge(exhaustive) returns, the delay list is empty and every
\* entry that was in a sealed buffer has been reclaimed: whatever is still
\* pending in the allocator's pipeline is in its current buffer.
C10_ExhaustiveDrains ==
  [][\A a \in Allocators : ExhaustiveReturns(a) =>
       /\ delay_list_'[a] = <<>>
       /\ \A p \in Pointers :
            /\ InDelayList(a, p) => obj'[p].st = "reclaimed"
            /\ obj'[p].pipe = a /\ obj'[p].st = "pending" => InCurrentBuffer(a, p)']_vars

\* C10 witness: a live allocator has an empty delay list and its cached time
\* is the deadline of a reclaimed entry, which only the sleeping branch of
\* purge(exhaustive) leaves behind.
C10_Witness ==
  \E p \in Pointers :
    /\ pc = "idle" /\ life[1] = "alive"
    /\ delay_list_[1] = <<>>
    /\ obj[p].st = "reclaimed"
    /\ now_[1] = obj[p].dtime + timeout_

\* s is a suffix of t.
IsSuffix(s, t) ==
  Len(s) <= Len(t) /\ SubSeq(t, Len(t) - Len(s) + 1, Len(t)) = s

\* C11: when purge(opportunistic) returns, the delay list is empty or its head
\* has timestamp + timeout >= the time the purge read (now_); what is left is
\* a tail of the old list, every entry of the buffers removed from its front
\* has been reclaimed and no entry of the buffers left has been touched.
C11_OpportunisticStopsAtFirstYoung ==
  [][\A a \in Allocators : PurgeOpportunistic(a) =>
       /\ now_'[a] = clock
       /\ \/ delay_list_'[a] = <<>>
          \/ heap'[Head(delay_list_'[a])].timestamp + timeout_ >= now_'[a]
       /\ IsSuffix(delay_list_'[a], delay_list_[a])
       /\ \A p \in Pointers :
            /\ InDelayList(a, p)' => obj'[p] = obj[p]
            /\ InDelayList(a, p) /\ ~InDelayList(a, p)'
                 => obj'[p].st = "reclaimed"]_vars

\* C11 witness: the allocator last read the clock after its youngest buffer
\* was sealed (in a purge), the list is not empty, its head is not yet due
\* and an older entry has been reclaimed.
C11_Witness ==
  /\ pc = "idle" /\ life[1] = "alive"
  /\ delay_list_[1] # <<>>
  /\ now_[1] > heap[delay_list_[1][Len(delay_list_[1])]].timestamp
  /\ heap[Head(delay_list_[1])].timestamp + timeout_ >= now_[1]
  /\ reclaimLog # <<>>

\* The carrier buffers allocator a holds: its current buffer and its list.
BuffersOf(a) ==
  (IF current_buffer_[a] = NULL THEN {} ELSE {current_buffer_[a]})
    \cup {delay_list_[a][k] : k \in 1..Len(delay_list_[a])}

\* The entry of p is in the pipeline of allocator a.
InPipeline(a, p) == InCurrentBuffer(a, p) \/ InDelayList(a, p)

\* Two allocators that both exist share no buffer, and a pending entry is in
\* the pipeline of the allocator it was given to (or of the one that
\* pipeline was moved to) and in no other.
PipelinesDisjoint ==
  /\ \A a, b \in Allocators :
       a # b /\ life[a] = "alive" /\ life[b] = "alive"
         => BuffersOf(a) \cap BuffersOf(b) = {}
  /\ \A p \in Pointers : obj[p].st = "pending" =>
       \A a \in Allocators :
         life[a] = "alive" => (InPipeline(a, p) <=> obj[p].pipe = a)

\* A step of the destructor of allocator a.
DestructorStep(a) ==
  \/ Destroy(a)
  \/ DestroyMovedFrom(a)
  \/ pc = "dtor_purge_sleep" /\ PurgeWake(a)
  \/ DestroyWake(a)

\* C12: copy construction gives the new allocator an empty delay list and a
\* newly allocated, empty current buffer and leaves the source, the buffers
\* and the entries as they were; an allocator and its copy never share a
\* buffer, each pending entry is in the pipeline of the one it was given to
\* only, and the destructor of one leaves the other's entries alone.
C12_CopyIsolatesPipelines ==
  /\ []PipelinesDisjoint
  /\ [][\A o, a \in Allocators :
          /\ CopyConstruct(o, a) =>
               /\ delay_list_'[a] = <<>>
               /\ current_buffer_size_'[a] = 0
               /\ current_buffer_'[a] # NULL
               /\ ~heap[current_buffer_'[a]].live
               /\ heap'[current_buffer_'[a]] = DelayBuffer(buffer_capacity_)
               /\ \A b \in BufferIds : heap[b].live => heap'[b] = heap[b]
               /\ current_buffer_'[o] = current_buffer_[o]
               /\ current_buffer_size_'[o] = current_buffer_size_[o]
               /\ delay_list_'[o] = delay_list_[o]
               /\ obj' = obj
          /\ DestructorStep(a) =>
               \A p \in Pointers : obj[p].pipe # a => obj'[p] = obj[p]]_vars

\* C12 witness: the copy has been destroyed after reclaiming an entry of its
\* own, and an entry given to the source is still pending in the source.
C12_Witness ==
  /\ life[1] = "alive" /\ life[2] = "destroyed"
  /\ \E p, q \in Pointers :
       /\ obj[p].pipe = 1 /\ obj[p].st = "pending" /\ InPipeline(1, p)
       /\ obj[q].pipe = 2 /\ obj[q].st = "reclaimed"

\* Allocator o has been moved from: it exists, has no current buffer and its
\* delay list is empty.
MovedFrom(o) ==
  life[o] = "alive" /\ was_moved_from(o) /\ delay_list_[o] = <<>>

\* C13: move construction hands the current buffer, its fill and the delay
\* list (same buffers, same order, same timestamps and entries) to the new
\* allocator and leaves the source with a null current buffer; the
\* destructor of the source reclaims nothing and frees nothing; and once the
\* new allocator has been destroyed every entry of its pipeline has been
\* reclaimed.
C13_MoveTransfersPipeline ==
  /\ [][\A o, a \in Allocators :
          /\ MoveConstruct(o, a) =>
               /\ current_buffer_'[a] = current_buffer_[o]
               /\ current_buffer_size_'[a] = current_buffer_size_[o]
               /\ delay_list_'[a] = delay_list_[o]
               /\ heap' = heap
               /\ current_buffer_'[o] = NULL
               /\ \A p \in Pointers :
                    /\ obj'[p].st = obj[p].st
                    /\ InPipeline(o, p) => InPipeline(a, p)'
          /\ MovedFrom(o) /\ DestructorStep(o) =>
               /\ obj' = obj /\ heap' = heap
               /\ reclaimLog' = reclaimLog /\ life'[o] = "destroyed"]_vars
  /\ [](\A o, a \in Allocators :
          MovedFrom(o) /\ life[a] = "destroyed" =>
            \A p \in Pointers : obj[p].pipe = a => obj[p].st = "reclaimed")

\* C14: a == b is true exactly when the timeouts are equal and the wrapped
\* allocators compare equal (all instances for std::allocator, the very
\* same object for the self-compatible allocator); replacing the capacity,
\* the fill or the delay list of an operand never changes the result;
\* a != b is the negation of a == b; and a copy whose wrapped allocator
\* compares equal to the one it was copied from compares equal to its source.
C14_EqualIffAllocatorAndTimeout ==
  /\ [](verdict # NoVerdict =>
         LET x == operands[verdict.a]
             y == operands[verdict.b]
         IN /\ verdict.eq <=>
                 /\ x.timeout_ = y.timeout_
                 /\ \/ x.allocator_.kind = "AlwaysEqualAllocator"
                    \/ verdict.a = verdict.b
            /\ verdict.ne <=> ~verdict.eq
            /\ \A c \in Capacities, n \in 0..1, l \in 0..1 :
                 LET z == [x EXCEPT !.buffer_capacity_ = c,
                                    !.current_buffer_size_ = n,
                                    !.delay_list_ = l]
                 IN /\ operator_eq(z, y) = verdict.eq
                    /\ operator_eq(y, z) = verdict.eq)
  /\ [][\A i \in 1..MaxOperands : CompareCopy(i) =>
          LET src == operands'[i]
              cpy == operands'[Len(operands')]
          IN allocator_equal(src.allocator_, cpy.allocator_)
               => operator_eq(src, cpy) /\ operator_eq(cpy, src)]_vars

\* C14 witness: two distinct objects of different capacity and different
\* pipeline contents were compared and found equal, after a copy was made.
C14_Witness ==
  /\ verdict # NoVerdict /\ verdict.eq /\ ~verdict.ne
  /\ verdict.a # verdict.b
  /\ Len(operands) = MaxOperands
  /\ operands[verdict.a].buffer_capacity_ # operands[verdict.b].buffer_capacity_
  /\ operands[verdict.a].delay_list_ # operands[verdict.b].delay_list_

\* C15: a call of destroy(p) runs no destructor, returns nothing to the
\* underlying allocator and leaves current buffer, fill, delay list and
\* buffers as they were; destructors run on the objects at p only in a step
\* that reclaims the entry of p.
C15_DestroyIsNoOp ==
  [][/\ \A a \in Allocators, p \in Pointers : destroy(a, p) =>
          /\ obj'[p].ndestroy = obj[p].ndestroy
          /\ obj'[p].nfree = obj[p].nfree
          /\ obj'[p].st = obj[p].st
          /\ \A q \in Pointers \ {p} : obj'[q] = obj[q]
          /\ current_buffer_' = current_buffer_
          /\ current_buffer_size_' = current_buffer_size_
          /\ delay_list_' = delay_list_
          /\ heap' = heap
          /\ reclaimLog' = reclaimLog
     /\ \A p \in Pointers :
          obj'[p].ndestroy # obj[p].ndestroy =>
            /\ obj[p].st = "pending" /\ obj'[p].st = "reclaimed"
            /\ obj'[p].nfree = obj[p].nfree + 1]_vars

\* C15 witness: destroy(p) was called, p was deallocated and is pending with
\* no destructor run, and another object on which destroy was called has had
\* its destructors run by a reclamation.
C15_Witness ==
  \E p, q \in Pointers :
    /\ obj[p].dcalls = 1 /\ obj[p].st = "pending" /\ obj[p].ndestroy = 0
    /\ obj[q].dcalls = 1 /\ obj[q].st = "reclaimed"
    /\ obj[q].ndestroy = obj[q].n

\* C16: a successful allocate(n) hands out the pointer the underlying
\* allocator returned and changes nothing else; when the underlying
\* allocate throws, the exception reaches the caller and current buffer,
\* fill, delay list, buffers and objects are as before the call.
C16_AllocatePassesThrough ==
  [][\A a \in Allocators :
       /\ Allocate(a) =>
            /\ thrown' = "none"
            /\ \E p \in underlying_allocate(obj) :
                 /\ obj'[p].st = "live"
                 /\ \A q \in Pointers \ {p} : obj'[q] = obj[q]
            /\ fields' = fields /\ heap' = heap
       /\ AllocateThrows(a) =>
            /\ thrown' = "bad_alloc"
            /\ bounded_allocate_throws(heap, obj)
            /\ obj' = obj /\ heap' = heap
            /\ current_buffer_' = current_buffer_
            /\ current_buffer_size_' = current_buffer_size_
            /\ delay_list_' = delay_list_]_vars

\* C16 witness: allocate threw with entries pending in the current buffer
\* and on the delay list.
C16_Witness ==
  /\ thrown = "bad_alloc"
  /\ delay_list_[1] # <<>>
  /\ current_buffer_size_[1] > 0

\* The calling thread is inside std::this_thread::sleep_until.
Sleeping ==
  pc \in {"dealloc_sleep", "purge_sleep", "dtor_purge_sleep",
          "dtor_buffer_sleep"}

\* C17: allocate (with construct), destroy, purge(opportunistic) and every
\* deallocate whose buffer allocation does not fail start and end with the
\* caller awake; the caller falls asleep only in a step of purge(exhaustive),
\* of the destructor or of a deallocate whose buffer_new() threw, and it
\* sleeps inside deallocate only while the allocator has no current buffer.
C17_SleepOnlyWhereDocumented ==
  /\ [][/\ \A a \in Allocators :
            \/ Allocate(a)
            \/ PurgeOpportunistic(a)
            \/ \E p \in Pointers :
                 \/ destroy(a, p)
                 \/ DeallocateBuffered(a, p)
                 \/ DeallocateRecycle(a, p)
                 \/ DeallocateNewBuffer(a, p)
            => ~Sleeping /\ ~Sleeping'
        /\ ~Sleeping /\ Sleeping' =>
            \E a \in Allocators :
              \/ PurgeExhaustive(a)
              \/ Destroy(a)
              \/ \E p \in Pointers : DeallocateBadAlloc(a, p)
        /\ Sleeping /\ Sleeping' /\ pc' # pc =>
            pc \in {"dtor_purge_sleep"} /\ pc' = "dtor_buffer_sleep"]_vars
  /\ [](pc = "dealloc_sleep" => current_buffer_[self] = NULL)

\* C17 witness: the caller sleeps inside deallocate after a failed buffer
\* allocation, having earlier reclaimed entries without sleeping.
C17_Witness ==
  pc = "dealloc_sleep" /\ reclaimLog # <<>> /\ \E p \in Pointers : obj[p].dcalls = 1

\* C18: if allocate(1) threw std::bad_alloc at the cap of live allocations
\* while entries deallocated through the allocator were pending (in its
\* current buffer or on its delay list) and purge(exhaustive) is the next
\* call, then when that purge returns allocate(1) does not throw.
C18_PurgeAfterBadAllocRecovers ==
  [][\A a \in Allocators :
       /\ ExhaustiveReturns(a)
       /\ thrown = "bad_alloc"
       /\ delay_list_[a] # <<>> \/ current_buffer_size_[a] > 0
       => ~bounded_allocate_throws(heap, obj)']_vars

\* C18 as amended: the same with at least one sealed buffer on the delay
\* list when allocate(1) threw.
C18_PurgeOfSealedBufferRecovers ==
  [][\A a \in Allocators :
       /\ ExhaustiveReturns(a)
       /\ thrown = "bad_alloc"
       /\ delay_list_[a] # <<>>
       => ~bounded_allocate_throws(heap, obj)']_vars

\* C18 witness: allocate threw at the cap, the purge that followed has
\* returned after reclaiming entries, and allocate can succeed again.
C18_Witness ==
  /\ thrown = "bad_alloc"
  /\ pc = "idle" /\ life[1] = "alive"
  /\ reclaimLog # <<>>
  /\ delay_list_[1] = <<>>
  /\ live_allocations_(heap, obj) < max_live_allocations_
  /\ \E p \in Pointers : obj[p].st = "live"

\* C19: the queue of a bounded_channel never holds more elements than the
\* capacity the channel was constructed with.
C19_QueueWithinCapacity == Len(queue_) <= capacity_

\* C19 witness: the queue holds capacity_ elements while one producer is
\* blocked in push() and another, holding the mutex, is about to look at the
\* queue.
C19_Witness ==
  /\ Len(queue_) = capacity_
  /\ \E t, u \in Threads :
       /\ t # u
       /\ t \in producers_ /\ thread[t].op = "push"
       /\ thread[u].pc = "locked" /\ thread[u].op \in PushOps

\* C20: the values dequeued, in the order the popping calls held the mutex,
\* are a prefix of the values enqueued, in the order the pushing calls held
\* the mutex; what is enqueued and not yet dequeued is the queue.
C20_FifoOrder ==
  /\ IsPrefix(popped, pushed)
  /\ pushed = popped \o queue_

\* C20 witness: every value has gone through the channel, and the values
\* were not enqueued in the order in which the pushing calls were made.
C20_Witness ==
  /\ Len(popped) = MaxPushes
  /\ popped = pushed
  /\ \E i \in 1..(MaxPushes - 1) : pushed[i] > pushed[i + 1]
  /\ \E t, u \in Threads : t # u /\ thread[t].out # 0 /\ thread[u].out # 0

\* Thread t, holding the mutex in push() or try_push(), leaves this place of
\* its call in this step.
PushDecides(t) ==
  /\ thread[t].pc = "locked"
  /\ thread[t].op \in {"push", "try_push"}
  /\ thread'[t] # thread[t]

\* C21: once closed_ is set it stays set; from then on nothing is enqueued,
\* and a push() or try_push() that looks at the channel returns closed,
\* whether the queue is full or not.
C21_ClosedRejectsPushes ==
  [][closed_ =>
       /\ closed_'
       /\ pushed' = pushed
       /\ Len(queue_') <= Len(queue_)
       /\ \A t \in Threads :
            PushDecides(t) =>
              /\ thread'[t].pc = "idle"
              /\ thread'[t].status = "closed"]_vars

\* C21 witness: the channel is closed and full, and the producing thread has
\* just been told so: its last call returned closed.
C21_Witness ==
  /\ closed_
  /\ is_full(queue_, capacity_)
  /\ thread[1].pc = "idle"
  /\ thread[1].status = "closed"

\* Thread t, in a popping call, returns in this step.
PopReturns(t) ==
  /\ thread[t].op \in PopOps
  /\ thread'[t].pc = "idle"

\* Thread t, holding the mutex in a popping call, goes on in this step.
PopDecides(t) ==
  /\ thread[t].pc = "locked"
  /\ thread[t].op \in PopOps
  /\ thread'[t].pc # "locked"

\* C22: a popping call returns closed only when it found the channel closed
\* and empty; one that finds an element takes the front of the queue into
\* its output variable, closed or not; one that returns closed, empty or
\* timeout leaves its output variable as it was.
C22_PopDrainsClosedChannel ==
  [][\A t \in Threads :
       /\ PopReturns(t) /\ thread'[t].status = "closed" =>
            closed_ /\ is_empty(queue_)
       /\ PopDecides(t) /\ ~is_empty(queue_) =>
            /\ thread'[t].out = queue_front(queue_)
            /\ queue_' = queue_pop(queue_)
            /\ thread'[t].pc = "notify"
       /\ PopReturns(t) /\ thread'[t].status \in {"closed", "empty", "timeout"} =>
            thread'[t].out = thread[t].out]_vars

\* C22 witness: everything pushed has been popped, the last element after
\* close(), and the consumer, told closed by its last call, still holds the
\* value it popped before.
C22_Witness ==
  /\ closed_
  /\ drained > 0
  /\ popped = pushed
  /\ thread[MaxThreads].pc = "idle"
  /\ thread[MaxThreads].status = "closed"
  /\ thread[MaxThreads].out = popped[Len(popped)]

\* Thread t, in a call with a timeout_time, returns in this step.
TimedReturns(t) ==
  /\ thread[t].op \in TimedOps
  /\ thread'[t].pc = "idle"

\* C23: a timed push returns timeout only from a channel that is open and
\* full, and closed whenever the channel is closed; a timed pop returns
\* timeout only from a channel that is open and empty, and returns success
\* whenever the channel is not empty.
C23_TimeoutOnlyWhenWaitConditionHeld ==
  [][\A t \in Threads :
       TimedReturns(t) =>
         /\ thread[t].op = "try_push_until" =>
              /\ thread'[t].status = "timeout" =>
                   is_full(queue_, capacity_) /\ ~closed_
              /\ closed_ /\ thread[t].pc # "notify" =>
                   thread'[t].status = "closed"
         /\ thread[t].op = "try_pop_until" =>
              /\ thread'[t].status = "timeout" =>
                   is_empty(queue_) /\ ~closed_
              /\ ~is_empty(queue_) => thread'[t].status = "success"]_vars

\* The values of sequence s, each with the number of times it occurs.
BagOfSeq(s) ==
  [v \in {s[i] : i \in DOMAIN s} |-> Cardinality({i \in DOMAIN s : s[i] = v})]

\* No pushing call is under way.
ProducersDone == \A t \in Threads : thread[t].op \notin PushOps

\* C24: no value is handed to two consumers or dequeued twice, every value
\* dequeued was enqueued, and once the producers are done and the channel is
\* closed and drained the values dequeued are, with their multiplicities,
\* the values enqueued.
C24_NothingLostOrDuplicated ==
  /\ \A t, u \in Threads :
       t # u /\ thread[t].out # 0 => thread[t].out # thread[u].out
  /\ \A i, j \in DOMAIN popped : i # j => popped[i] # popped[j]
  /\ \A v \in DOMAIN BagOfSeq(popped) :
       v \in DOMAIN BagOfSeq(pushed) /\ BagOfSeq(popped)[v] <= BagOfSeq(pushed)[v]
  /\ ProducersDone /\ closed_ /\ is_empty(queue_) =>
       BagOfSeq(popped) = BagOfSeq(pushed)

\* C24 witness: every value has been pushed, by more than one producer, the
\* channel is closed and drained, no call is under way, and two consumers
\* hold values they popped.
C24_Witness ==
  /\ closed_ /\ is_empty(queue_)
  /\ \A t \in Threads : thread[t].pc = "idle"
  /\ Len(pushed) = MaxPushes
  /\ \E i \in 1..(MaxPushes - 1) : pushed[i] > pushed[i + 1]
  /\ \E t, u \in Threads : t # u /\ thread[t].out # 0 /\ thread[u].out # 0

\* Thread t is blocked in member function op: in its wait, or woken and
\* after the mutex again.
Blocked(t, op) ==
  /\ thread[t].op = op
  /\ thread[t].pc \in {"waiting", "relock"}

\* C25: once the channel is closed, a thread blocked in push() returns
\* closed and a thread blocked in pop() returns success or closed, and the
\* thread in close() returns whatever the others do.
C25_CloseReleasesBlockedThreads ==
  \A t \in Threads :
    /\ (closed_ /\ Blocked(t, "push")) ~>
         (thread[t].pc = "idle" /\ thread[t].status = "closed")
    /\ (closed_ /\ Blocked(t, "pop")) ~>
         (thread[t].pc = "idle" /\ thread[t].status \in {"success", "closed"})
    /\ (thread[t].op = "close") ~> (thread[t].pc = "idle")

\* C25 witness: close() has returned while a producer and a consumer that
\* were blocked have been woken and have not got the mutex back yet.
C25_Witness ==
  /\ closed_
  /\ thread[1].pc = "idle" /\ thread[1].status = "none"
  /\ \E t, u \in Threads :
       /\ Blocked(t, "push") /\ thread[t].pc = "relock"
       /\ Blocked(u, "pop") /\ thread[u].pc = "relock"

\* Thread t is blocked in pop() although the queue holds an element.
PopOverdue(t) == Blocked(t, "pop") /\ ~is_empty(queue_)

\* Thread t is blocked in push() although the channel is open and has room.
PushOverdue(t) ==
  Blocked(t, "push") /\ ~closed_ /\ ~is_full(queue_, capacity_)

\* The last call of thread t has returned success.
Succeeded(t) == thread[t].pc = "idle" /\ thread[t].status = "success"

\* C26: with fair scheduling no thread stays blocked in pop() while the
\* queue holds an element from some time on, or in push() while the channel
\* is open and has room from some time on; a blocked push() that finds room
\* returns success unless the channel fills up or is closed first, and a
\* blocked pop() returns success unless the queue is emptied first.
C26_NoLostWakeup ==
  \A t \in Threads :
    /\ []<>(~PopOverdue(t))
    /\ []<>(~PushOverdue(t))
    /\ PushOverdue(t) ~>
         (Succeeded(t) \/ closed_ \/ is_full(queue_, capacity_))
    /\ PopOverdue(t) ~> (Succeeded(t) \/ is_empty(queue_))

\* C26 witness: a pop() has made room in a full channel and returned, and
\* the push() that was blocked on the full channel has been woken and is
\* after the mutex, with the channel still open and not full.
C26_Witness ==
  \E t, u \in Threads :
    /\ t # u
    /\ PushOverdue(t) /\ thread[t].pc = "relock"
    /\ Succeeded(u) /\ thread[u].out # 0
    /\ producers_ = {}
    /\ Len(popped) = 1 /\ Len(pushed) = capacity_

\* Thread t has an iterator that no operator++ is working on.
Settled(t) == iterators[t].born /\ ~iterators[t].incrementing

\* C27: two iterators made by separate begin() calls on the channel, neither
\* of them past-the-end, do not compare equal, before and after increments.
C27_DistinctIteratorsUnequal ==
  \A t, u \in IteratorThreads :
    /\ t # u
    /\ Settled(t) /\ ~iterator_eq(iterators[t], end)
    /\ Settled(u) /\ ~iterator_eq(iterators[u], end)
    => ~iterator_eq(iterators[t], iterators[u])

\* C28: an iterator that no operator++ is working on equals end() exactly
\* when the pop() of its last increment returned closed, which pop() does
\* only for a closed and empty channel; otherwise it holds the value that
\* pop() gave it, the last of the values it has held.  An iterator that
\* has reached end() while no other iterator was made has held every value
\* pushed, once each and in the order of the pushes.
C28_IteratorReachesEndWhenDrained ==
  \A t \in IteratorThreads :
    Settled(t) =>
      /\ iterator_eq(iterators[t], end) <=> thread[t].status = "closed"
      /\ iterator_eq(iterators[t], end) => closed_ /\ is_empty(queue_)
      /\ ~iterator_eq(iterators[t], end) =>
           /\ iterators[t].seen # <<>>
           /\ iterators[t].value_ = iterators[t].seen[Len(iterators[t].seen)]
           /\ iterators[t].value_ = thread[t].out
      /\ /\ iterator_eq(iterators[t], end)
         /\ \A u \in IteratorThreads \ {t} : ~iterators[u].born
         => iterators[t].seen = pushed

\* C28 witness: the only iterator made has popped all its values from the
\* closed channel, more than one of them and two of them equal, has held
\* all the values pushed, and equals end().
C28_Witness ==
  \E t \in IteratorThreads :
    /\ Settled(t)
    /\ iterator_eq(iterators[t], end)
    /\ \A u \in IteratorThreads \ {t} : ~iterators[u].born
    /\ Len(iterators[t].seen) > 1
    /\ drained = Len(iterators[t].seen)
    /\ \E i, j \in DOMAIN pushed : i # j /\ pushed[i] = pushed[j]

\* The threads that own the mutex: between a lock() or try_lock() that got
\* it and their unlock().
Owners == {t \in Threads : locker[t].pc = "owner"}

\* C29: at most one thread owns the mutex, and the flag is set exactly when
\* one does; try_lock() returns true exactly when the flag was clear, and
\* leaves it set either way; lock() returns only by taking the clear flag;
\* a default-constructed mutex grants the first try_lock().
C29_MutualExclusion ==
  [][/\ Cardinality(Owners) <= 1
     /\ flag_ <=> Owners # {}
     /\ \A t \in Threads :
          /\ locker'[t] # locker[t] /\ locker'[t].last = "try_lock" =>
               /\ locker'[t].ret = ~flag_
               /\ flag_'
               /\ (t \in Owners') <=> (locker'[t].ret \/ t \in Owners)
          /\ locker[t].pc = "spin" /\ locker'[t].pc # "spin" =>
               ~flag_ /\ flag_' /\ Owners' = {t}
          /\ locker'[t] # locker[t] /\ locker'[t].last = "try_lock"
             /\ (\A u \in Threads : locker[u] = NoLocker) =>
               locker'[t].ret]_vars

\* C29 witness: one thread owns the mutex, a second one has just been
\* refused by try_lock(), and a third one spins in lock().
C29_Witness ==
  \E t, u, w \in Threads :
    /\ Owners = {t} /\ locker[t].last = "lock"
    /\ locker[u].last = "try_lock" /\ ~locker[u].ret /\ locker[u].pc = "out"
    /\ locker[w].pc = "spin"
    /\ flag_

\* C30: when remove_and_copy_if returns from a range of n elements it has
\* applied the predicate exactly n times and copied at most n elements.
C30_LinearWork ==
  algorithm.pc = "return" =>
    /\ algorithm.applications = Len(algorithm.range)
    /\ algorithm.copies <= Len(algorithm.range)

\* The timestamps of the buffers on the delay list of allocator a, head first.
Timestamps(a) ==
  [i \in DOMAIN delay_list_[a] |-> heap[delay_list_[a][i]].timestamp]

\* C31: on every delay list the timestamps do not decrease from the head to
\* the tail.
C31_TimestampsNonDecreasing ==
  \A a \in Allocators :
    \A i, j \in DOMAIN delay_list_[a] :
      i < j => Timestamps(a)[i] <= Timestamps(a)[j]

\* C31 witness: the allocator that took over the pipeline by move
\* construction has two buffers on its delay list, sealed at different
\* times, after a purge has taken an older buffer off the list.
C31_Witness ==
  /\ life[2] = "alive" /\ MovedFrom(1)
  /\ Len(delay_list_[2]) >= 2
  /\ Timestamps(2)[1] < Timestamps(2)[2]
  /\ reclaimLog # <<>>

\* The deallocate calls made so far, all of them on the first allocator.
DeallocateCalls == Len(deallocLog)

\* The buffers of allocator a sealed so far: those on its delay list and
\* those a purge has taken off it, whose entries are all in reclaimLog.
Sealed(a) == Len(delay_list_[a]) + (Len(reclaimLog) \div buffer_capacity_)

\* The pointers held by the entries of buffer b.
EntriesOf(b) == {heap[b].elements[i].p : i \in 1..buffer_capacity_}

\* The caller is outside deallocate and outside the destructor of the
\* first allocator, which has not been destroyed.
BetweenCalls ==
  /\ life[1] = "alive"
  /\ pc \in {"idle", "purge_sleep"}

\* C32: after k deallocate calls on the first allocator, floor(k / capacity)
\* buffers have been sealed and the fill of the current buffer is
\* k mod capacity; every buffer on the delay list holds capacity entries,
\* each of a different pointer that is pending.
C32_SealedExactlyWhenFull ==
  /\ BetweenCalls =>
       /\ Sealed(1) = DeallocateCalls \div buffer_capacity_
       /\ current_buffer_size_[1] = DeallocateCalls % buffer_capacity_
  /\ \A i \in DOMAIN delay_list_[1] :
       /\ Cardinality(EntriesOf(delay_list_[1][i])) = buffer_capacity_
       /\ \A p \in EntriesOf(delay_list_[1][i]) :
            p # NULL /\ obj[p].st = "pending"

\* C32 witness: three deallocate calls with a capacity of two: one buffer
\* has been sealed, and the current buffer holds one entry.
C32_Witness ==
  /\ BetweenCalls
  /\ buffer_capacity_ = 2
  /\ DeallocateCalls = 3
  /\ Len(delay_list_[1]) = 1
  /\ current_buffer_size_[1] = 1

\* The carriers the byte allocator has handed out and not got back.
LiveBuffers(hp) == {b \in BufferIds : hp[b].live}

\* The step is a deallocate() call on allocator a that fills its buffer.
SealingCall(a) ==
  /\ deallocLog' # deallocLog
  /\ obj'[deallocLog'[Len(deallocLog')]].pipe = a
  /\ current_buffer_size_[a] + 1 = buffer_capacity_

\* At the time of the call the oldest buffer of the delay list is past its
\* deadline.
HeadEligible(a) ==
  /\ delay_list_[a] # <<>>
  /\ clock > heap[Head(delay_list_[a])].timestamp + timeout_

\* The buffers that the step takes off the delay list of allocator a.
Swept(a) ==
  {delay_list_[a][i] : i \in DOMAIN delay_list_[a]}
    \ {delay_list_'[a][i] : i \in DOMAIN delay_list_'[a]}

\* C33: when the head of the delay list is eligible at sealing time,
\* deallocate takes the oldest reclaimed buffer as the new current buffer
\* without asking the byte allocator for bytes, and every further buffer
\* reclaimed in the same sweep goes back to the byte allocator.
C33_RecycleOldestFreeTheRest ==
  [][\A a \in Allocators :
       SealingCall(a) /\ HeadEligible(a) =>
         /\ pc' = "idle"
         /\ current_buffer_'[a] = Head(delay_list_[a])
         /\ heap'[Head(delay_list_[a])].live
         /\ LiveBuffers(heap') \subseteq LiveBuffers(heap)
         /\ Head(delay_list_[a]) \in Swept(a)
         /\ \A b \in Swept(a) \ {Head(delay_list_[a])} :
              ~heap'[b].live /\ heap'[b].returned # 0]_vars

\* A sealing call has swept buffers 1 and 2 off the delay list: buffer 1 is
\* the current buffer again, with the entry of its previous round still in
\* its bytes, and buffer 2 has gone back to the byte allocator.
C33_Witness ==
  /\ pc = "idle"
  /\ delay_list_[1] = <<3>>
  /\ current_buffer_[1] = 1
  /\ current_buffer_size_[1] = 0
  /\ heap[1].live /\ heap[1].elements[1].p # NULL
  /\ ~heap[2].live /\ heap[2].returned # 0
  /\ Len(reclaimLog) = 2 * buffer_capacity_

\* C34: in the recovery path after a failed buffer allocation, deallocate
\* sleeps until the deadline of the head of the delay list, which is at most
\* timeout_ after the moment the allocation failed, and it does not go on
\* before the clock has reached that deadline.
C34_RecoverySleepWithinTimeout ==
  [][\A a \in Allocators :
       /\ pc = "idle" /\ pc' = "dealloc_sleep" /\ self' = a =>
            /\ delay_list_'[a] # <<>>
            /\ sleep_deadline'
                 = heap'[Head(delay_list_'[a])].timestamp + timeout_
            /\ sleep_deadline' <= clock + timeout_
       /\ pc = "dealloc_sleep" /\ pc' # "dealloc_sleep" /\ self = a =>
            clock >= sleep_deadline]_vars

\* The allocation of a buffer has failed with an older buffer at the head of
\* the delay list: the thread sleeps for less than timeout_.
C34_Witness ==
  /\ pc = "dealloc_sleep"
  /\ self = 1
  /\ Len(delay_list_[1]) = 2
  /\ sleep_deadline = heap[Head(delay_list_[1])].timestamp + timeout_
  /\ sleep_deadline < now_[1] + timeout_
  /\ clock = now_[1]

\* The clock keeps advancing, and a thread in sleep_until goes on once the
\* clock has reached its deadline.
FairSleeper ==
  /\ WF_vars(Tick)
  /\ \A a \in Allocators :
       /\ WF_vars(PurgeWake(a))
       /\ WF_vars(DestroyWake(a))
       /\ WF_vars(DeallocateRecover(a) \/ DeallocateRecoverAssert(a))

\* One allocator, with a clock that keeps advancing.
SpecSleeper == Init /\ [][Next]_vars /\ FairSleeper

\* The places where purge(exhaustive) and the destructor sleep.
PurgeSleeps == {"purge_sleep", "dtor_purge_sleep", "dtor_buffer_sleep"}

\* C35: with a clock that keeps advancing, purge(exhaustive) and the
\* destructor terminate: a thread asleep in either returns after finitely
\* many steps, with the delay list drained.
C35_ExhaustivePurgeTerminates ==
  \A a \in Allocators :
    (pc \in PurgeSleeps /\ self = a) ~> (pc = "idle" /\ delay_list_[a] = <<>>)

\* purge(exhaustive) has returned from its sleep: the delay list is empty,
\* two buffers have been reclaimed, and now_ is the deadline of the last one.
C35_Witness ==
  /\ pc = "idle"
  /\ life[1] = "alive"
  /\ delay_list_[1] = <<>>
  /\ Len(reclaimLog) >= 2 * buffer_capacity_
  /\ now_[1] = obj[reclaimLog[Len(reclaimLog)]].dtime + timeout_

\* `auto now = TimeoutClock::now()` of the destructor that takes this step.
DtorEntry == IF pc = "idle" THEN clock ELSE dtor_now

\* C36: when an allocator that was not moved from is destroyed with a
\* non-empty current buffer, the entries of the current buffer are reclaimed
\* only once every sealed buffer has been reclaimed and no earlier than
\* timeout_ after the clock value the destructor read on entry, and the
\* carrier is freed in the same step.
C36_CurrentBufferLastAndLate ==
  [][\A a \in Allocators :
       /\ \A p \in Pointers :
            DestructorStep(a) /\ InCurrentBuffer(a, p) /\ ReclaimedInStep(p) =>
              /\ delay_list_[a] = <<>>
              /\ \A q \in Pointers :
                   obj[q].pipe = a /\ obj[q].st = "pending"
                     => InCurrentBuffer(a, q)
              /\ clock >= DtorEntry + timeout_
       /\ DestructorStep(a) /\ ~was_moved_from(a) /\ life'[a] = "destroyed" =>
            /\ \A p \in Pointers :
                 InCurrentBuffer(a, p) =>
                   ReclaimedInStep(p) /\ obj'[p].st = "reclaimed"
            /\ ~heap'[current_buffer_[a]].live]_vars

\* The destructor has reclaimed a sealed buffer and then, timeout_ after its
\* entry, an entry of the current buffer that had been deallocated more than
\* timeout_ before the destructor was entered.
C36_Witness ==
  /\ pc = "idle"
  /\ life[1] = "destroyed"
  /\ DeallocateCalls = buffer_capacity_ + 1
  /\ DeallocateCalls % buffer_capacity_ # 0
  /\ Len(reclaimLog) = DeallocateCalls
  /\ LET p == reclaimLog[Len(reclaimLog)] IN
       /\ p = LastDeallocated
       /\ obj[p].st = "reclaimed"
       /\ obj[p].dtime + timeout_ < now_[1]
       /\ clock = now_[1] + timeout_

\* C37: the timestamp of every sealed buffer on a delay list is at least the
\* clock value of the deallocate call of each entry it holds: a buffer is
\* stamped only after its last entry has been appended.
C37_StampedAfterLastEntry ==
  \A a \in Allocators : \A i \in DOMAIN delay_list_[a] :
    \A p \in EntriesOf(delay_list_[a][i]) :
      p # NULL => heap[delay_list_[a][i]].timestamp >= obj[p].dtime

\* A sealed buffer whose first entry was deallocated before the clock value
\* the buffer was stamped with.
C37_Witness ==
  /\ pc = "idle"
  /\ delay_list_[1] # <<>>
  /\ \E p \in EntriesOf(Head(delay_list_[1])) :
       /\ p # NULL
       /\ obj[p].st = "pending"
       /\ obj[p].dtime < heap[Head(delay_list_[1])].timestamp
  /\ obj[LastDeallocated].dtime = heap[Head(delay_list_[1])].timestamp

\* C38: the cached time now_ never exceeds the clock and never decreases
\* over the life of an allocator; when the exhaustive purge sets it to a
\* deadline without reading the clock, the clock has reached that deadline
\* and the previous cached value was not later than it.
C38_CachedTimeMonotonic ==
  /\ [](\A a \in Allocators : now_[a] <= clock)
  /\ [][\A a \in Allocators :
          /\ now_'[a] >= now_[a]
          /\ PurgeWake(a) =>
               /\ now_'[a] = sleep_deadline
               /\ now_[a] <= sleep_deadline
               /\ sleep_deadline <= clock]_vars

\* purge(exhaustive) has come back from a sleep from which it woke late: the
\* cached time is the deadline of the last buffer, behind the clock.
C38_Witness ==
  /\ pc = "idle"
  /\ life[1] = "alive"
  /\ delay_list_[1] = <<>>
  /\ reclaimLog # <<>>
  /\ now_[1] = obj[reclaimLog[Len(reclaimLog)]].dtime + timeout_
  /\ now_[1] < clock

\* The buffers allocator a holds: those linked in its delay list and its
\* current buffer.
Linked(a) == {delay_list_[a][i] : i \in DOMAIN delay_list_[a]}
Held(a) == Linked(a) \cup ({current_buffer_[a]} \ {NULL})

\* C39: carrier buffers are conserved.  After every operation on an
\* allocator the carriers obtained from the byte allocator and not returned
\* to it are the buffers of the delay list plus the current buffer, and none
\* is left after the destructor; a buffer linked in the delay list is neither
\* freed nor the current buffer, and is linked once.
C39_CarriersConserved ==
  /\ pc = "idle" /\ life[1] = "alive" =>
       /\ current_buffer_[1] # NULL
       /\ Cardinality(LiveBuffers(heap)) = Len(delay_list_[1]) + 1
  /\ pc = "idle" /\ life[1] = "destroyed" => LiveBuffers(heap) = {}
  /\ life[1] = "alive" =>
       /\ \A b \in Held(1) : heap[b].live
       /\ current_buffer_[1] \notin Linked(1)
       /\ Cardinality(Linked(1)) = Len(delay_list_[1])

\* The carriers that have been handed back to the byte allocator.
HandedBack == {b \in BufferIds : ~heap[b].live /\ heap[b].allocated # 0}

\* C40: every carrier buffer goes back to the byte allocator with the count
\* it was allocated with: the count given to deallocate in buffer_delete is
\* the count given to allocate in buffer_new, sizeof(DelayBuffer) +
\* capacity * sizeof(DelayBufferElement).
C40_ReturnedWithAllocatedSize ==
  \A b \in HandedBack : heap[b].returned = heap[b].allocated

====
